---- MODULE Spec2Model ----
(***************************************************************************)
(* Adaptive SPA content discovery and LLM extraction pipeline of the       *)
(* dynamic-pricing scraper: the extraction client (rate limiter and retry  *)
(* loop), the two SPA interaction orchestrators and the async crawler.     *)
(*                                                                         *)
(* Each component is a state machine over its own group of variables and   *)
(* has its own specification (SpecExtract, SpecSPA, SpecCrawl); the        *)
(* variables of the components a specification does not run stay at their  *)
(* idle values.                                                            *)
(***************************************************************************)
EXTENDS Integers, Sequences, FiniteSets, TLC

VARIABLES
    \* ---- extraction client: the provider's rate limiter
    since_request,      \* time.time() - last_request_time in seconds, capped at TimeCap
    since_start,        \* seconds since the last provider invocation started, capped
    last_gap,           \* seconds between the starts of the last two invocations, capped
    \* ---- extraction client: one extract call per task
    tpc,                \* position of each extract call
    text_len,           \* len(text_content.strip()) of each call
    attempt,            \* loop variable of the retry loop
    error_msg,          \* str(e) of the attempt's exception
    calls,              \* provider invocations made by the call
    sleeps,             \* backoff waits performed by the call, in order
    ret,                \* what the call returned
    parsed,             \* the last call of _parse_llm_response: for whom, on what, its result
    \* ---- SPA scrapers (UnifiedSPAContentScraper, SPAContentScraper)
    scraper,            \* which scraper runs: "unified", "legacy" or "off"
    spa_pc,             \* position in scrape_spa_content
    max_interactions,   \* spa_config.max_interactions
    interaction_num,    \* loop variable of the interaction loop
    content_states,     \* fingerprints recorded so far, in order
    collected_htmls,    \* snapshots collected for the LLM, in order
    interactions_performed, \* interactions_performed / interactions_count
    interacted_elements,    \* signatures of the elements clicked successfully
    selector_idx,       \* position in menu_selectors / click_elements
    clicked_element,    \* the element chosen by _perform_interaction
    click_success,      \* whether a click method succeeded on it
    methods_tried,      \* click methods attempted on it
    results,            \* results of the extraction tasks, by snapshot
    all_products,       \* accumulated products
    spa_result,         \* the SPAScrapingResult returned
    duplicate_seen,     \* a captured fingerprint was already recorded
    driver_refused,     \* _perform_interaction returned False
    llm_inputs,         \* fingerprints of the contents handed to LLM extraction
    seen_content_hashes,    \* SPAContentScraper: fingerprints seen in the session
    elements_found,     \* SPAContentScraper: len(elements[:5]) of the selector
    element_idx,        \* SPAContentScraper: position in elements[:5]
    element_signature,  \* signature computed for the chosen element
    unknown_seq,        \* fallback signatures generated for chosen elements
    clicked_signatures, \* signatures on which a click method succeeded
    scroll_attempted,   \* the scroll fallback ran in the last _perform_interaction
    \* ---- AsyncLLMWebCrawler ----
    crawl_pc,           \* "off", "loop", "batch", "done"
    max_pages,
    max_concurrent,
    urls_to_visit,
    visited_urls,       \* self.visited_urls
    current_batch,
    crawl_results,      \* results
    time_up,            \* elapsed_time > self.max_crawl_time was observed
    in_flight,          \* URLs whose _fetch_and_process_page holds the semaphore
    unit_results,       \* what the finished tasks of the batch returned, by URL
    page_links,         \* the URLs the pages of the last finished batch link to
    \* ---- _fetch_rendered_html of the two extraction clients
    renderer,           \* which client renders: "unified", "legacy" or "off"
    render_pc,          \* position in _fetch_rendered_html
    render_url,         \* url
    render_step,        \* position among the page steps of the inner try
    browser_launched,   \* p.chromium.launch returned a browser
    close_called,       \* browser.close() was called
    playwright_exited,  \* the async with async_playwright() block was left
    raised_in,          \* the call that raised and how, <<>> if none did
    render_pending,     \* value of the return statement waiting for finally
    render_ret,         \* what _fetch_rendered_html returned
    \* ---- the product loop of _parse_llm_response
    prod_pc,            \* position in the loop over data.get("products", [])
    data_len,           \* len(data.get("products", []))
    product_idx,        \* product dicts handled so far
    current_data,       \* product_data of the last iteration
    product_item,       \* what _create_product_item returned for it
    parsed_products,    \* the products list _parse_llm_response builds
    \* ---- sitemap discovery (SitemapScraper, AsyncLLMWebCrawler)
    sm_owner,           \* whose _get_sitemap_urls runs: "SitemapScraper", "AsyncLLMWebCrawler" or "off"
    sm_pc,              \* position in _get_sitemap_urls
    sm_idx,             \* position in potential_sitemaps
    sm_settings,        \* config.custom_settings of the SitemapScraper
    sm_requested,       \* the sitemap paths requested so far, in order
    sm_answers,         \* what each requested path answered, in order
    sitemap_urls,       \* sitemap_urls
    \* ---- reuse of a UnifiedSPAContentScraper
    reused,            \* the scraper object was used for an earlier scrape_spa_content call
    \* ---- merging the product lists of several pages
    merge_owner,        \* whose result lists are merged: "scrape_all_treatments", "static_urls", "sitemap" or "off"
    merge_pc,           \* position in the merging function
    page_results,       \* crawl_results / results: what each page gave, in order
    collected_products, \* all_products
    unique_products,    \* unique_products
    merge_ret,          \* the list the function returned
    \* ---- _parse_price_value
    price_pc,           \* position in _parse_price_value: "off", "called" or "returned"
    price_value,        \* price_value
    price_ret,          \* the value returned: <<>> for None, <<n>> for the float n
    \* ---- the selector loop of _perform_interaction
    selector_log,       \* _perform_interaction: the selectors handled in the call, in order, and how each one ended
    click_log,          \* the click methods attempted on the chosen element, in order, and whether each raised
    \* ---- the order of the URLs of a sitemap
    order_pc,           \* position in the resolution of the sitemap: "off", "resolve", "limit" or "done"
    order_settings,     \* config.custom_settings
    sitemap_doc,        \* the sitemap document found and the documents it references
    resolved_urls,      \* what _get_sitemap_urls returned
    limited_urls,       \* limited_urls of scrape_sitemap_content
    \* ---- the recursion of _parse_sitemap_content
    parse_pc,           \* position in _parse_sitemap_content: "off", "parsing" or "returned"
    documents,          \* the sitemap documents: for each one the documents its <sitemap> tags reference
    call_stack,          \* the calls of _parse_sitemap_content that have not returned, outermost first
    outer_calls,        \* whether the number of calls outside the ones kept is odd
    \* ---- the completion of the extraction tasks
    gather_pc,          \* position in phase 2 of scrape_spa_content: "off", "gather" or "folded"
    task_results,       \* the result of the task of each snapshot, Pending until the task has ended
    completion_order,   \* the snapshots whose extraction task has ended, in the order the tasks ended
    folded_products,    \* all_products after the loop over the results
    \* ---- the caller of scrape_spa_content
    browser_closed,     \* scrape_spa_content: browser.close() of the finally clause was awaited
    config_returned,    \* UnifiedConfigurableScraper.scrape_by_config: the SPA branch has handled the result
    config_products     \* all_products of scrape_by_config

extractVars == <<since_request, since_start, last_gap, tpc, text_len,
                 attempt, error_msg, calls, sleeps, ret, parsed>>

spaVars == <<scraper, spa_pc, max_interactions, interaction_num, content_states,
             collected_htmls, interactions_performed, interacted_elements,
             selector_idx, clicked_element, click_success, methods_tried,
             results, all_products, spa_result, duplicate_seen, driver_refused,
             llm_inputs, seen_content_hashes, elements_found, element_idx,
             element_signature, unknown_seq, clicked_signatures, scroll_attempted>>

crawlVars == <<crawl_pc, max_pages, max_concurrent, urls_to_visit, visited_urls,
               current_batch, crawl_results, time_up, in_flight, unit_results,
               page_links>>

renderVars == <<renderer, render_pc, render_url, render_step, browser_launched,
                close_called, playwright_exited, raised_in, render_pending,
                render_ret>>

productVars == <<prod_pc, data_len, product_idx, current_data, product_item,
                 parsed_products>>

sitemapVars == <<sm_owner, sm_pc, sm_idx, sm_settings, sm_requested,
                 sm_answers, sitemap_urls>>

sessionVars == <<reused>>

mergeVars == <<merge_owner, merge_pc, page_results, collected_products, unique_products, merge_ret>>

priceVars == <<price_pc, price_value, price_ret>>

interactionVars == <<selector_log, click_log>>

orderVars == <<order_pc, order_settings, sitemap_doc, resolved_urls, limited_urls>>

parseVars == <<parse_pc, documents, call_stack, outer_calls>>

gatherVars == <<gather_pc, task_results, completion_order, folded_products>>

configVars == <<browser_closed, config_returned, config_products>>

vars == <<extractVars, spaVars, crawlVars, renderVars, productVars, sitemapVars, sessionVars, mergeVars, priceVars, interactionVars, orderVars, parseVars, gatherVars, configVars>>

(***************************************************************************)
(* Bounds of the model.                                                    *)
(***************************************************************************)
NumTasks == 2
MaxInteractions == 3
HashMod == 3
MaxUnknown == 1
NumUrls == 6
MaxPages == 3

(***************************************************************************)
(* Program constants.                                                      *)
(***************************************************************************)
max_retries == 3
BackoffBase == 30
RequestsPerMinute == 10
MinTextLen == 100

Tasks == 1..NumTasks
NoTime == 0 - 1
NoError == <<>>

\* 60.0 / requests_per_minute
min_delay_between_requests == 60 \div RequestsPerMinute

\* Elapsed times are kept up to this value: the rate limiter treats every
\* longer time alike.
TimeCap == min_delay_between_requests + 1

Min(a, b) == IF a < b THEN a ELSE b

(***************************************************************************)
(* Error messages are sequences of words; the code looks for "429" as it   *)
(* is written and for "quota" and "exceeded" in the lower-cased message.   *)
(***************************************************************************)
ErrorMessages ==
    { <<"HTTP", "429">>, <<"Resource", "EXCEEDED">>, <<"Quota", "limit">>,
      <<"connection", "timeout">> }

Lower(w) ==
    CASE w = "EXCEEDED" -> "exceeded"
      [] w = "Quota" -> "quota"
      [] w = "HTTP" -> "http"
      [] w = "Resource" -> "resource"
      [] OTHER -> w

Contains(msg, w) == \E i \in 1..Len(msg) : msg[i] = w

LowerMsg(msg) == [i \in 1..Len(msg) |-> Lower(msg[i])]

IsRateLimitError_Always(msg) == TRUE

\* "429" in error_msg or "quota" in error_msg.lower() or "exceeded" in error_msg.lower()
IsRateLimitError(msg) ==
    Contains(msg, "429") \/ Contains(LowerMsg(msg), "quota")
        \/ Contains(LowerMsg(msg), "exceeded")

\* attempt < max_retries - 1
CanRetry(a) == a < max_retries - 1

backoff_wait_Times(a) == (2 * a) * BackoffBase

\* wait_time = (2**attempt) * 30
backoff_wait(a) == (2 ^ a) * BackoffBase

wait_for_rate_limit_NoSleep(time_since_last_request) == 0

\* LLMProvider._wait_for_rate_limit: the seconds it sleeps (time.sleep blocks
\* the thread, so nothing else runs meanwhile) before it records
\* last_request_time = time.time().
wait_for_rate_limit(time_since_last_request) ==
    IF time_since_last_request < min_delay_between_requests
    THEN min_delay_between_requests - time_since_last_request
    ELSE 0

NoResult ==
    [returned |-> FALSE, products |-> <<>>, interactions_performed |-> 0,
     content_states |-> <<>>, error |-> "none"]

ExtractIdle ==
    /\ since_request = TimeCap
    /\ since_start = NoTime
    /\ last_gap = NoTime
    /\ tpc = [t \in Tasks |-> "done"]
    /\ text_len = [t \in Tasks |-> 0]
    /\ attempt = [t \in Tasks |-> 0]
    /\ error_msg = [t \in Tasks |-> NoError]
    /\ calls = [t \in Tasks |-> 0]
    /\ sleeps = [t \in Tasks |-> <<>>]
    /\ ret = [t \in Tasks |-> "none"]
    /\ parsed = <<>>

SpaIdle ==
    /\ scraper = "off"
    /\ spa_pc = "off"
    /\ max_interactions = 0
    /\ interaction_num = 0
    /\ content_states = <<>>
    /\ collected_htmls = <<>>
    /\ interactions_performed = 0
    /\ interacted_elements = {}
    /\ selector_idx = 0
    /\ clicked_element = "none"
    /\ click_success = FALSE
    /\ methods_tried = 0
    /\ results = <<>>
    /\ all_products = <<>>
    /\ spa_result = NoResult
    /\ duplicate_seen = FALSE
    /\ driver_refused = FALSE
    /\ llm_inputs = <<>>
    /\ seen_content_hashes = {}
    /\ elements_found = 0
    /\ element_idx = 0
    /\ element_signature = "none"
    /\ unknown_seq = 0
    /\ clicked_signatures = {}
    /\ scroll_attempted = FALSE

CrawlIdle ==
    /\ crawl_pc = "off"
    /\ max_pages = 0
    /\ max_concurrent = 0
    /\ urls_to_visit = {}
    /\ visited_urls = {}
    /\ current_batch = {}
    /\ crawl_results = {}
    /\ time_up = FALSE
    /\ in_flight = {}
    /\ unit_results = <<>>
    /\ page_links = {}

RenderIdle ==
    /\ renderer = "off"
    /\ render_pc = "off"
    /\ render_url = 0
    /\ render_step = 0
    /\ browser_launched = FALSE
    /\ close_called = FALSE
    /\ playwright_exited = FALSE
    /\ raised_in = <<>>
    /\ render_pending = "none"
    /\ render_ret = "none"

ProductIdle ==
    /\ prod_pc = "off"
    /\ data_len = 0
    /\ product_idx = 0
    /\ current_data = <<>>
    /\ product_item = <<>>
    /\ parsed_products = <<>>

\* custom_settings without exclude_patterns and priority_keywords.
NoSettings == [exclude_patterns |-> {}, priority_keywords |-> {}]

SitemapIdle ==
    /\ sm_owner = "off"
    /\ sm_pc = "off"
    /\ sm_idx = 0
    /\ sm_settings = NoSettings
    /\ sm_requested = <<>>
    /\ sm_answers = <<>>
    /\ sitemap_urls = {}

SessionIdle ==
    /\ reused = FALSE

MergeIdle ==
    /\ merge_owner = "off"
    /\ merge_pc = "off"
    /\ page_results = <<>>
    /\ collected_products = <<>>
    /\ unique_products = <<>>
    /\ merge_ret = <<>>

PriceIdle ==
    /\ price_pc = "off"
    /\ price_value = <<>>
    /\ price_ret = <<>>

InteractionIdle ==
    /\ selector_log = <<>>
    /\ click_log = <<>>

OrderIdle ==
    /\ order_pc = "off"
    /\ order_settings = NoSettings
    /\ sitemap_doc = <<>>
    /\ resolved_urls = <<>>
    /\ limited_urls = <<>>

ParseIdle ==
    /\ parse_pc = "off"
    /\ documents = <<>>
    /\ call_stack = <<>>
    /\ outer_calls = FALSE

GatherIdle ==
    /\ gather_pc = "off"
    /\ task_results = <<>>
    /\ completion_order = <<>>
    /\ folded_products = <<>>

ConfigIdle ==
    /\ browser_closed = FALSE
    /\ config_returned = FALSE
    /\ config_products = <<>>

(***************************************************************************)
(* Extraction client.                                                      *)
(***************************************************************************)
ExtractInit ==
    /\ since_request = TimeCap      \* last_request_time = 0.0, long ago
    /\ since_start = NoTime        \* no invocation yet
    /\ last_gap = NoTime
    /\ tpc = [t \in Tasks |-> "start"]
    /\ text_len = [t \in Tasks |-> 0]
    /\ attempt = [t \in Tasks |-> 0]
    /\ error_msg = [t \in Tasks |-> NoError]
    /\ calls = [t \in Tasks |-> 0]
    /\ sleeps = [t \in Tasks |-> <<>>]
    /\ ret = [t \in Tasks |-> "none"]
    /\ parsed = <<>>

TooShort_Below(n) == n < MinTextLen - 1

\* len(text_content.strip()) < 100
TooShort(n) == n < MinTextLen

\* extract_treatments_from_html_async up to the retry loop, for a text of
\* n characters.
ExtractStart(t) ==
    /\ tpc[t] = "start"
    /\ \E n \in {MinTextLen - 1, MinTextLen} :
          /\ text_len' = [text_len EXCEPT ![t] = n]
          /\ IF TooShort(n)
             THEN /\ tpc' = [tpc EXCEPT ![t] = "done"]
                  /\ ret' = [ret EXCEPT ![t] = "empty"]
             ELSE /\ tpc' = [tpc EXCEPT ![t] = "attempt"]
                  /\ ret' = ret
    /\ UNCHANGED <<since_request, since_start, last_gap, attempt, error_msg,
                   calls, sleeps, parsed>>

\* The head of the retry loop: generate_async runs _wait_for_rate_limit
\* (blocking) and then starts the provider invocation.
Invoke(t) ==
    /\ tpc[t] = "attempt"
    /\ LET slept == wait_for_rate_limit(since_request)
       IN  /\ since_request' = 0
           /\ last_gap' = IF since_start = NoTime
                           THEN NoTime
                           ELSE Min(since_start + slept, TimeCap)
           /\ since_start' = 0
    /\ calls' = [calls EXCEPT ![t] = @ + 1]
    /\ error_msg' = [error_msg EXCEPT ![t] = NoError]
    /\ tpc' = [tpc EXCEPT ![t] = "inflight"]
    /\ UNCHANGED <<text_len, attempt, sleeps, ret, parsed>>

(***************************************************************************)
(* _parse_llm_response.  A response is a sequence of tokens: "{", "}" and  *)
(* "," as in JSON, "v" for any text without them (a scalar or a            *)
(* "key": scalar member inside an object, prose outside), "F" for the      *)
(* fence ```json and "E" for the fence ```.  The objects nested directly in *)
(* the top-level object stand for the product dicts of the response.       *)
(***************************************************************************)
Responses ==
    { <<"v", "{", "v", ",", "{", "v", "}", "}", "v">>,
      <<"F", "{", "{", "}", ",", "{", "}", "}", "E">>,
      <<"{", "v", ",", "{", "v", "}">>,
      <<"F", "{", "v", ",", "{", "v">>,
      <<"F", "{", "{", "}", "}", ",", "E">>,
      <<"{", "{", "v", "}", ",", "}">>,
      <<"{", "v", ",", ",", "}">>,
      <<"F", "v", "E">>,
      <<"v", "v">> }

\* The position after the JSON value that starts at s[i], 0 if there is none.
RECURSIVE ParseValue(_, _)
RECURSIVE ParseMembers(_, _)
ParseValue(s, i) ==
    IF i > Len(s) THEN 0
    ELSE IF s[i] = "v" THEN i + 1
    ELSE IF s[i] = "{"
         THEN IF i + 1 <= Len(s) /\ s[i + 1] = "}"
              THEN i + 2
              ELSE ParseMembers(s, i + 1)
    ELSE 0

ParseMembers(s, i) ==
    LET j == ParseValue(s, i)
    IN  IF j = 0 \/ j > Len(s) THEN 0
        ELSE IF s[j] = "}" THEN j + 1
        ELSE IF s[j] = "," THEN ParseMembers(s, j + 1)
        ELSE 0

\* The objects among the members of a valid object that start at s[i].
RECURSIVE CountObjects(_, _)
CountObjects(s, i) ==
    LET j == ParseValue(s, i)
        here == IF s[i] = "{" THEN 1 ELSE 0
    IN  IF s[j] = "," THEN here + CountObjects(s, j + 1) ELSE here

\* json.loads(s): JSONDecodeError unless s is one JSON value; for a dict,
\* the length of data.get("products", []).
json_loads(s) ==
    IF ParseValue(s, 1) # Len(s) + 1
    THEN [ok |-> FALSE, is_dict |-> FALSE, product_dicts |-> 0]
    ELSE [ok |-> TRUE,
          is_dict |-> s[1] = "{",
          product_dicts |-> IF s[1] = "{" /\ s[2] # "}"
                            THEN CountObjects(s, 2)
                            ELSE 0]

\* The first position from i on that holds a token of S, 0 if there is none.
RECURSIVE FirstOf(_, _, _)
FirstOf(s, S, i) ==
    IF i > Len(s) THEN 0
    ELSE IF s[i] \in S THEN i
    ELSE FirstOf(s, S, i + 1)

\* The last position that holds token c, 0 if there is none.
RECURSIVE LastOf(_, _, _)
LastOf(s, c, i) ==
    IF i = 0 THEN 0
    ELSE IF s[i] = c THEN i
    ELSE LastOf(s, c, i - 1)

\* The JSON text taken from the response: the inside of the first ```json
\* block (closed by the next ```, which a further ```json also provides, or
\* running to the end), else the text from the first "{" to the last "}".
ExtractJson(response_text) ==
    LET fence == FirstOf(response_text, {"F"}, 1)
        close == FirstOf(response_text, {"E", "F"}, fence + 1)
        open == FirstOf(response_text, {"{"}, 1)
        last == LastOf(response_text, "}", Len(response_text))
    IN  IF fence # 0
        THEN [found |-> TRUE,
              json_str |-> IF close # 0
                           THEN SubSeq(response_text, fence + 1, close - 1)
                           ELSE SubSeq(response_text, fence + 1, Len(response_text))]
        ELSE IF open # 0 /\ last > open
             THEN [found |-> TRUE, json_str |-> SubSeq(response_text, open, last)]
             ELSE [found |-> FALSE, json_str |-> <<>>]

\* The loop of _try_fix_json: the position of the first "}" that brings
\* brace_count back to 0, counted from 1; 0 if there is none.
RECURSIVE LastCompletePos(_, _, _)
LastCompletePos(s, i, brace_count) ==
    IF i > Len(s) THEN 0
    ELSE IF s[i] = "{" THEN LastCompletePos(s, i + 1, brace_count + 1)
    ELSE IF s[i] = "}"
         THEN IF brace_count - 1 = 0
              THEN i
              ELSE LastCompletePos(s, i + 1, brace_count - 1)
    ELSE LastCompletePos(s, i + 1, brace_count)

\* re.sub(r",(\s*[}\]])", r"\1", json_str)
RECURSIVE RemoveTrailingCommas(_, _)
RemoveTrailingCommas(s, i) ==
    IF i > Len(s) THEN <<>>
    ELSE IF s[i] = "," /\ i < Len(s) /\ s[i + 1] = "}"
         THEN RemoveTrailingCommas(s, i + 1)
    ELSE <<s[i]>> \o RemoveTrailingCommas(s, i + 1)

\* _try_fix_json: the repaired text in a sequence of its own, <<>> for None.
try_fix_json(json_str) ==
    LET pos == LastCompletePos(json_str, 1, 0)
        cut == IF (json_str = <<>> \/ json_str[Len(json_str)] # "}") /\ pos - 1 > 0
               THEN SubSeq(json_str, 1, pos)
               ELSE json_str
        fixed == RemoveTrailingCommas(cut, 1)
    IN  IF json_loads(fixed).ok THEN <<fixed>> ELSE <<>>

\* What a call of _parse_llm_response did: the text it parsed, the repaired
\* text if a repair produced one, whether it raised, the product dicts it
\* went through, and how often it called json.loads and _try_fix_json.
ParseResult(json_str, fixed, raised, product_dicts, loads_calls, fix_calls) ==
    [json_str |-> json_str, fixed |-> fixed, raised |-> raised,
     product_dicts |-> product_dicts, loads_calls |-> loads_calls,
     fix_calls |-> fix_calls]

OnDecodeError_Reraises(json_str) == ParseResult(json_str, <<>>, TRUE, 0, 1, 0)

\* except json.JSONDecodeError: one _try_fix_json, one json.loads of what it
\* returned, and return [] when it returned None or the products cannot be
\* read from the repaired value.
OnDecodeError(json_str) ==
    LET fixed_json == try_fix_json(json_str)
    IN  IF fixed_json = <<>>
        THEN ParseResult(json_str, <<>>, FALSE, 0, 1, 1)
        ELSE LET data == json_loads(fixed_json[1])
             IN  ParseResult(json_str, fixed_json, FALSE,
                             IF data.is_dict THEN data.product_dicts ELSE 0,
                             2, 1)

\* _parse_llm_response
parse_llm_response(response_text) ==
    LET extracted == ExtractJson(response_text)
        data == json_loads(extracted.json_str)
    IN  IF ~extracted.found THEN ParseResult(<<>>, <<>>, FALSE, 0, 0, 0)
        ELSE IF data.ok
             THEN ParseResult(extracted.json_str, <<>>, FALSE,
                              IF data.is_dict THEN data.product_dicts ELSE 0,
                              1, 0)
        ELSE OnDecodeError(extracted.json_str)

\* The parser is a function of the response alone.
ParseTable == [response_text \in Responses |-> parse_llm_response(response_text)]

\* str(e) of a json.JSONDecodeError
DecodeErrorMessage == <<"Expecting", "delimiter">>

\* The provider answered: result = self._parse_llm_response(response_text,
\* source_url); return result.  Were the parser to raise, the except block of
\* the retry loop would run with its exception.
RespondOk(t) ==
    /\ tpc[t] = "inflight"
    /\ \E response_text \in Responses :
          LET result == ParseTable[response_text]
          IN  /\ parsed' = <<[task |-> t, response |-> response_text,
                                result |-> result]>>
              /\ IF result.raised
                 THEN /\ error_msg' = [error_msg EXCEPT ![t] = DecodeErrorMessage]
                      /\ ret' = [ret EXCEPT ![t] = "empty"]
                 ELSE /\ ret' = [ret EXCEPT ![t] = "parsed"]
                      /\ UNCHANGED error_msg
    /\ tpc' = [tpc EXCEPT ![t] = "done"]
    /\ UNCHANGED <<since_request, since_start, last_gap, text_len, attempt,
                   calls, sleeps>>

\* The provider raised: the except block of the retry loop, up to the
\* backoff sleep or the return.
RespondError(t) ==
    /\ tpc[t] = "inflight"
    /\ \E msg \in ErrorMessages :
          /\ error_msg' = [error_msg EXCEPT ![t] = msg]
          /\ IF IsRateLimitError(msg) /\ CanRetry(attempt[t])
             THEN /\ sleeps' = [sleeps EXCEPT ![t] = Append(@, backoff_wait(attempt[t]))]
                  /\ tpc' = [tpc EXCEPT ![t] = "backoff"]
                  /\ ret' = ret
             ELSE /\ tpc' = [tpc EXCEPT ![t] = "done"]
                  /\ ret' = [ret EXCEPT ![t] = "empty"]
                  /\ sleeps' = sleeps
    /\ UNCHANGED <<since_request, since_start, last_gap, text_len, attempt, calls,
                   parsed>>

\* The backoff sleep (asyncio.sleep(wait_time), during which the other calls
\* run) is over: continue with the next attempt, or leave the loop when the
\* attempts are used up (the final return []).  The length of the sleep is
\* kept in sleeps; when the call resumes relative to the other calls is left
\* open.
Wake(t) ==
    /\ tpc[t] = "backoff"
    /\ attempt' = [attempt EXCEPT ![t] = @ + 1]
    /\ IF attempt[t] + 1 < max_retries
       THEN /\ tpc' = [tpc EXCEPT ![t] = "attempt"]
            /\ ret' = ret
       ELSE /\ tpc' = [tpc EXCEPT ![t] = "done"]
            /\ ret' = [ret EXCEPT ![t] = "empty"]
    /\ UNCHANGED <<since_request, since_start, last_gap, text_len, error_msg,
                   calls, sleeps, parsed>>

\* One second passes while no call holds the thread.
Tick ==
    /\ \E t \in Tasks : tpc[t] # "done"
    /\ since_request < TimeCap
    /\ since_request' = Min(since_request + 1, TimeCap)
    /\ since_start' = IF since_start = NoTime THEN NoTime
                                              ELSE Min(since_start + 1, TimeCap)
    /\ UNCHANGED <<last_gap, tpc, text_len, attempt, error_msg, calls, sleeps, ret,
                   parsed>>

ExtractNext ==
    \/ \E t \in Tasks : ExtractStart(t) /\ UNCHANGED <<spaVars, crawlVars, renderVars, productVars, sitemapVars, sessionVars, mergeVars, priceVars, interactionVars, orderVars, parseVars, gatherVars, configVars>>
    \/ \E t \in Tasks : Invoke(t) /\ UNCHANGED <<spaVars, crawlVars, renderVars, productVars, sitemapVars, sessionVars, mergeVars, priceVars, interactionVars, orderVars, parseVars, gatherVars, configVars>>
    \/ \E t \in Tasks : RespondOk(t) /\ UNCHANGED <<spaVars, crawlVars, renderVars, productVars, sitemapVars, sessionVars, mergeVars, priceVars, interactionVars, orderVars, parseVars, gatherVars, configVars>>
    \/ \E t \in Tasks : RespondError(t) /\ UNCHANGED <<spaVars, crawlVars, renderVars, productVars, sitemapVars, sessionVars, mergeVars, priceVars, interactionVars, orderVars, parseVars, gatherVars, configVars>>
    \/ \E t \in Tasks : Wake(t) /\ UNCHANGED <<spaVars, crawlVars, renderVars, productVars, sitemapVars, sessionVars, mergeVars, priceVars, interactionVars, orderVars, parseVars, gatherVars, configVars>>
    \/ Tick /\ UNCHANGED <<spaVars, crawlVars, renderVars, productVars, sitemapVars, sessionVars, mergeVars, priceVars, interactionVars, orderVars, parseVars, gatherVars, configVars>>

InitExtract == ExtractInit /\ SpaIdle /\ CrawlIdle /\ RenderIdle /\ ProductIdle
        /\ SitemapIdle
        /\ SessionIdle
        /\ MergeIdle
        /\ PriceIdle
        /\ InteractionIdle
        /\ OrderIdle
        /\ ParseIdle
        /\ GatherIdle
        /\ ConfigIdle

SpecExtract == InitExtract /\ [][ExtractNext]_vars

(***************************************************************************)
(* The page, as the SPA scrapers see it.                                   *)
(*                                                                         *)
(* A rendered document is its first 5000 characters and the rest.          *)
(***************************************************************************)
Contents == {<<pre, rest>> : pre \in {"P", "Q"}, rest \in {"x", "y"}}

\* A string as the number its hash is computed from.
Code(str) == IF str \in {"P", "x"} THEN 0 ELSE 1

\* hash(s) of a str: one value per string within a process, with collisions.
PyHash(n) == n % HashMod

\* UnifiedSPAContentScraper: str(hash(current_content))
ContentHash(c) == PyHash(2 * Code(c[1]) + Code(c[2]))

\* SPAContentScraper: hash(content[:5000])
PrefixHash(c) == PyHash(Code(c[1]))

Range(seq) == {seq[i] : i \in 1..Len(seq)}

\* The interactive elements of the page.  "tab1" and "tab2" look alike and
\* get the same signature.
Elements == {"tab1", "tab2", "more"}

\* menu_selectors, in priority order (a sample of the list).
menu_selectors == <<"[data-target]", ".load-more">>

\* The elements page.query_selector_all(selector) returns.
Matching(selector) ==
    IF selector = "[data-target]" THEN {"tab1", "tab2"} ELSE {"more"}

\* _get_element_signature: tag, text[:50], class, id, href, data attributes.
Signature(e) == IF e \in {"tab1", "tab2"} THEN "a:Tab" ELSE "button:More"

\* _get_element_signature when reading the element raised: the k-th
\* fallback signature f"unknown:{time.time()}" of the session.
UnknownSignature(k) == "unknown:" \o ToString(k)

(***************************************************************************)
(* Products and the results of one LLM extraction.                         *)
(***************************************************************************)
Key(p) == <<p.clinic_name, p.product_name>>

\* The product lists one extraction can return, as (clinic, name) pairs.
ExtractionResults ==
    { <<>>,
      << <<"ClinicA", "Botox">>, <<"ClinicA", "Botox">> >>,
      << <<"ClinicB", "Botox">>, <<"ClinicA", "Filler">> >> }

\* The ProductItems of result r, extracted from snapshot k.
Items(r, k) ==
    [j \in 1..Len(r) |-> [clinic_name |-> r[j][1], product_name |-> r[j][2], found_in |-> k]]

Pending == <<"pending">>

\* UnifiedSPAContentScraper._deduplicate_products
deduplicate_products(existing_products, new_products) ==
    LET existing_names == {p.product_name : p \in Range(existing_products)}
        keep(p) == p.product_name \notin existing_names
    IN  SelectSeq(new_products, keep)

ResultAt_Reversed(res, i) == res[Len(res) + 1 - i]

\* gather returns the results in the order of the tasks, which is the order
\* of collected_htmls.
ResultAt(res, i) == res[i]

RECURSIVE FoldResults(_, _, _)
\* The loop over the gathered results: a non-empty result is deduplicated
\* against the accumulated products and appended.
FoldResults(acc, res, i) ==
    IF i > Len(res) THEN acc
    ELSE IF ResultAt(res, i) # <<>>
         THEN FoldResults(acc \o deduplicate_products(acc, ResultAt(res, i)), res, i + 1)
         ELSE FoldResults(acc, res, i + 1)

(***************************************************************************)
(* UnifiedSPAContentScraper.scrape_spa_content                             *)
(***************************************************************************)
UnifiedInit ==
    /\ scraper = "unified"
    /\ spa_pc = "loop"
    /\ max_interactions \in 1..MaxInteractions
    /\ interaction_num = 0
    /\ content_states = <<>>
    /\ collected_htmls = <<>>
    /\ interactions_performed = 0
    /\ interacted_elements = {}
    /\ selector_idx = 0
    /\ clicked_element = "none"
    /\ click_success = FALSE
    /\ methods_tried = 0
    /\ results = <<>>
    /\ all_products = <<>>
    /\ spa_result = NoResult
    /\ duplicate_seen = FALSE
    /\ driver_refused = FALSE
    /\ llm_inputs = <<>>
    /\ seen_content_hashes = {}
    /\ elements_found = 0
    /\ element_idx = 0
    /\ element_signature = "none"
    /\ unknown_seq = 0
    /\ clicked_signatures = {}
    /\ scroll_attempted = FALSE

IsDuplicate_Never(content_hash, states) == FALSE

\* content_hash in content_states
IsDuplicate(content_hash, states) == content_hash \in Range(states)

MayInteract_Always(num, max) == TRUE

\* interaction_num < self.spa_config.max_interactions - 1
MayInteract(num, max) == num < max - 1

\* One pass through the head of the interaction loop: capture the content,
\* stop on a fingerprint already recorded, else record it and collect the
\* snapshot; then start the next interaction unless this was the last pass.
CaptureContent ==
    /\ scraper = "unified"
    /\ spa_pc = "loop"
    /\ interaction_num < max_interactions
    /\ \E current_content \in Contents :
          LET content_hash == ContentHash(current_content)
          IN  IF IsDuplicate(content_hash, content_states)
              THEN /\ duplicate_seen' = TRUE
                   /\ spa_pc' = "collected"
                   /\ UNCHANGED <<content_states, collected_htmls, selector_idx>>
              ELSE /\ content_states' = Append(content_states, content_hash)
                   /\ collected_htmls' = Append(collected_htmls, current_content)
                   /\ duplicate_seen' = duplicate_seen
                   /\ IF MayInteract(interaction_num, max_interactions)
                      THEN spa_pc' = "select" /\ selector_idx' = 1
                      ELSE spa_pc' = "collected" /\ selector_idx' = selector_idx
    /\ clicked_element' = "none"
    /\ click_success' = FALSE
    /\ methods_tried' = 0
    /\ element_signature' = "none"
    /\ scroll_attempted' = FALSE
    /\ UNCHANGED <<unknown_seq, clicked_signatures,
                   seen_content_hashes, elements_found, element_idx, scraper, max_interactions, interaction_num, interactions_performed,
                   interacted_elements, results, all_products, spa_result,
                   driver_refused, llm_inputs>>

\* The selector loop of _perform_interaction went past the last selector.
SelectorsLeft == selector_idx <= Len(menu_selectors)

\* The visible elements whose signature is not in interacted_elements.
Available(visible_elements, interacted) ==
    {e \in visible_elements : Signature(e) \notin interacted}

selector_at_Reversed(i) == menu_selectors[Len(menu_selectors) + 1 - i]

\* for selector in menu_selectors: the selector of the i-th pass.
selector_at(i) == menu_selectors[i]

\* What the call remembers of a selector it handled: whether an element
\* was available under it, and whether none was chosen ("none"), one is
\* being clicked ("chosen") or the attempt on it ended in the except branch
\* that logs the interaction as failed ("failed").
Handled(selector, any_available, outcome) ==
    [selector |-> selector, any_available |-> any_available, outcome |-> outcome]

\* The attempt on the element chosen last ended in the except branch.
MarkFailed(log) == [log EXCEPT ![Len(log)].outcome = "failed"]

\* _perform_interaction, one selector: enumerate, filter and choose.  The
\* enumeration can raise or find nothing visible (next selector), every
\* visible element can be tried already (next selector), or one of the
\* available elements is chosen and its signature is computed once more.
\* The signature of the elements in unsigned could not be computed by the
\* filter: they get a fresh fallback signature, which is in no set.
SelectElement ==
    /\ scraper = "unified"
    /\ spa_pc = "select"
    /\ SelectorsLeft
    /\ \E visible_elements \in SUBSET Matching(selector_at(selector_idx)) :
       \E unsigned \in SUBSET visible_elements :
          LET available_elements ==
                  Available(visible_elements \ unsigned, interacted_elements) \cup unsigned
          IN  IF available_elements = {}
              THEN /\ selector_idx' = selector_idx + 1
                   /\ selector_log' = Append(selector_log,
                          Handled(selector_at(selector_idx), FALSE, "none"))
                   /\ click_log' = click_log
                   /\ UNCHANGED <<spa_pc, clicked_element, click_success, methods_tried,
                                  element_signature, unknown_seq>>
              ELSE \E e \in available_elements, fallback \in BOOLEAN :
                      /\ fallback => unknown_seq < MaxUnknown
                      /\ clicked_element' = e
                      /\ element_signature' =
                            IF fallback THEN UnknownSignature(unknown_seq + 1)
                                        ELSE Signature(e)
                      /\ unknown_seq' = IF fallback THEN unknown_seq + 1 ELSE unknown_seq
                      /\ click_success' = FALSE
                      /\ methods_tried' = 0
                      /\ spa_pc' = "click"
                      /\ selector_idx' = selector_idx
                      /\ selector_log' = Append(selector_log,
                             Handled(selector_at(selector_idx), TRUE, "chosen"))
                      /\ click_log' = <<>>
    /\ UNCHANGED <<clicked_signatures, scroll_attempted,
                   seen_content_hashes, elements_found, element_idx, scraper,
                   max_interactions, interaction_num, content_states,
                   collected_htmls, interactions_performed, interacted_elements,
                   results, all_products, spa_result, duplicate_seen,
                   driver_refused, llm_inputs>>

\* A step before the click raised (reading the element, scrolling it into
\* view): the failure is logged and the next selector is tried.
PreClickError ==
    /\ scraper = "unified"
    /\ spa_pc = "click"
    /\ methods_tried = 0
    /\ spa_pc' = "select"
    /\ selector_idx' = selector_idx + 1
    /\ selector_log' = MarkFailed(selector_log)
    /\ click_log' = click_log
    /\ UNCHANGED <<element_signature, unknown_seq, clicked_signatures, scroll_attempted,
                   seen_content_hashes, elements_found, element_idx, scraper, max_interactions, interaction_num, content_states,
                   collected_htmls, interactions_performed, interacted_elements,
                   clicked_element, click_success, methods_tried, results,
                   all_products, spa_result, duplicate_seen, driver_refused,
                   llm_inputs>>

NumClickMethods == 3

\* The click methods of the fallback chain: element.click(timeout=5000),
\* element.click(force=True, timeout=3000) and
\* element.evaluate("element => element.click()").
click_methods == <<"click", "click_force", "evaluate_click">>

click_method_at_ForceFirst(i) ==
    IF i = 1 THEN click_methods[2] ELSE IF i = 2 THEN click_methods[1] ELSE click_methods[i]

\* The method of the i-th level of the nested try blocks.
click_method_at(i) == click_methods[i]

RecordFailure_Add(interacted, signature) == interacted \cup {signature}

\* The except branch of a failed click logs the failure and does not touch
\* interacted_elements.
RecordFailure(interacted, signature) == interacted

AfterClickFailure_Raise(idx) == [pc |-> "raised", idx |-> idx]

\* except Exception as e: the failure is logged; continue with the next
\* selector.
AfterClickFailure(idx) == [pc |-> "select", idx |-> idx + 1]

\* The click methods in order: click(), click(force=True), element.click()
\* by script.  The next one is attempted when the one before raised; when
\* the last one raised the failure is logged and the next selector is tried.
TryClick ==
    /\ scraper = "unified"
    /\ spa_pc = "click"
    /\ methods_tried < NumClickMethods
    /\ methods_tried' = methods_tried + 1
    /\ \E raised \in BOOLEAN :
          /\ click_log' = Append(click_log,
                 [method |-> click_method_at(methods_tried + 1), raised |-> raised])
          /\ IF ~raised
             THEN /\ click_success' = TRUE
                  /\ clicked_signatures' = clicked_signatures \cup {element_signature}
                  /\ spa_pc' = "clicked"
                  /\ selector_idx' = selector_idx
                  /\ interacted_elements' = interacted_elements
                  /\ selector_log' = selector_log
             ELSE /\ click_success' = FALSE
                  /\ clicked_signatures' = clicked_signatures
                  /\ IF methods_tried + 1 < NumClickMethods
                     THEN /\ spa_pc' = "click"
                          /\ selector_idx' = selector_idx
                          /\ interacted_elements' = interacted_elements
                          /\ selector_log' = selector_log
                     ELSE /\ spa_pc' = AfterClickFailure(selector_idx).pc
                          /\ selector_idx' = AfterClickFailure(selector_idx).idx
                          /\ interacted_elements' =
                                 RecordFailure(interacted_elements, element_signature)
                          /\ selector_log' = MarkFailed(selector_log)
    /\ UNCHANGED <<element_signature, unknown_seq, scroll_attempted,
                   seen_content_hashes, elements_found, element_idx, scraper,
                   max_interactions, interaction_num, content_states,
                   collected_htmls, interactions_performed,
                   clicked_element, results, all_products, spa_result,
                   duplicate_seen, driver_refused, llm_inputs>>

\* self.interacted_elements.add(element_signature)
RecordInteraction(interacted, signature) == interacted \cup {signature}

\* _perform_interaction returns: its local variables are gone.
CallReturns ==
    /\ selector_idx' = 0
    /\ selector_log' = <<>>
    /\ click_log' = <<>>
    /\ clicked_element' = "none"
    /\ element_signature' = "none"
    /\ click_success' = FALSE
    /\ methods_tried' = 0

\* After a successful click: the wait for the page, the signature recorded,
\* return True; back in the loop the interaction is counted and the next
\* pass begins.
ClickSucceeded ==
    /\ scraper = "unified"
    /\ spa_pc = "clicked"
    /\ interacted_elements' = RecordInteraction(interacted_elements, element_signature)
    /\ interactions_performed' = interactions_performed + 1
    /\ interaction_num' = interaction_num + 1
    /\ spa_pc' = "loop"
    /\ CallReturns
    /\ UNCHANGED <<unknown_seq, clicked_signatures, scroll_attempted,
                   seen_content_hashes, elements_found, element_idx, scraper,
                   max_interactions, content_states, collected_htmls,
                   results, all_products, spa_result, duplicate_seen,
                   driver_refused, llm_inputs>>

\* The wait after a successful click raised: the failure is logged and the
\* next selector is tried, the signature is not recorded.
PostClickError ==
    /\ scraper = "unified"
    /\ spa_pc = "clicked"
    /\ spa_pc' = "select"
    /\ selector_idx' = selector_idx + 1
    /\ selector_log' = MarkFailed(selector_log)
    /\ click_log' = click_log
    /\ UNCHANGED <<element_signature, unknown_seq, clicked_signatures, scroll_attempted,
                   seen_content_hashes, elements_found, element_idx, scraper, max_interactions, interaction_num, content_states,
                   collected_htmls, interactions_performed, interacted_elements,
                   clicked_element, click_success, methods_tried, results,
                   all_products, spa_result, duplicate_seen, driver_refused,
                   llm_inputs>>

AfterRefusal_Continue(num) == [pc |-> "loop", num |-> num + 1]

\* success is False: the loop is left (break).
AfterRefusal(num) == [pc |-> "collected", num |-> num]

\* No selector is left.  With no element chosen in this call the page is
\* scrolled to the bottom, which counts as an interaction unless it raises;
\* otherwise the call returns False and the loop ends.
ScrollOrGiveUp ==
    /\ scraper = "unified"
    /\ spa_pc = "select"
    /\ ~SelectorsLeft
    /\ \E scroll_raised \in BOOLEAN :
          /\ scroll_attempted' = (clicked_element = "none")
          /\ IF clicked_element = "none" /\ ~scroll_raised
             THEN /\ interactions_performed' = interactions_performed + 1
                  /\ interaction_num' = interaction_num + 1
                  /\ spa_pc' = "loop"
                  /\ driver_refused' = driver_refused
             ELSE /\ driver_refused' = TRUE
                  /\ spa_pc' = AfterRefusal(interaction_num).pc
                  /\ interaction_num' = AfterRefusal(interaction_num).num
                  /\ interactions_performed' = interactions_performed
    /\ CallReturns
    /\ UNCHANGED <<unknown_seq, clicked_signatures,
                   seen_content_hashes, elements_found, element_idx, scraper,
                   max_interactions, content_states, collected_htmls,
                   interacted_elements, results, all_products,
                   spa_result, duplicate_seen, llm_inputs>>

LoopOver_Early(pc) == pc \in {"collected", "select"}

\* Phase 2 follows the for loop of phase 1, in the same coroutine.
LoopOver(pc) == pc = "collected"

\* The interaction loop is over: one extraction task per collected snapshot
\* is created and all of them are awaited together (asyncio.gather).
DispatchExtraction ==
    /\ scraper = "unified"
    /\ LoopOver(spa_pc)
    /\ IF collected_htmls # <<>>
       THEN /\ results' = [i \in 1..Len(collected_htmls) |-> Pending]
            /\ UNCHANGED configVars
            /\ llm_inputs' = [i \in 1..Len(collected_htmls) |-> ContentHash(collected_htmls[i])]
            /\ spa_pc' = "gather"
            /\ spa_result' = spa_result
       ELSE /\ spa_result' = [returned |-> TRUE, products |-> all_products,
                               interactions_performed |-> interactions_performed,
                               content_states |-> content_states, error |-> "none"]
            /\ spa_pc' = "done"
            /\ browser_closed' = TRUE
            /\ UNCHANGED <<results, llm_inputs, config_returned, config_products>>
    /\ UNCHANGED <<element_signature, unknown_seq, clicked_signatures, scroll_attempted,
                   seen_content_hashes, elements_found, element_idx, scraper, max_interactions, interaction_num, content_states,
                   collected_htmls, interactions_performed, interacted_elements,
                   selector_idx, clicked_element, click_success, methods_tried,
                   all_products, duplicate_seen, driver_refused>>

\* process_single_html for snapshot i ends: with the products the extractor
\* returned, or with [] when it raised.  The tasks end in any order.
ExtractionDone(i) ==
    /\ scraper = "unified"
    /\ spa_pc = "gather"
    /\ i \in 1..Len(results)
    /\ results[i] = Pending
    /\ \E r \in ExtractionResults : results' = [results EXCEPT ![i] = Items(r, i)]
    /\ UNCHANGED <<element_signature, unknown_seq, clicked_signatures, scroll_attempted,
                   seen_content_hashes, elements_found, element_idx, scraper, spa_pc, max_interactions, interaction_num, content_states,
                   collected_htmls, interactions_performed, interacted_elements,
                   selector_idx, clicked_element, click_success, methods_tried,
                   all_products, spa_result, duplicate_seen, driver_refused,
                   llm_inputs>>

\* gather returned: the results are folded in interaction order and the
\* SPAScrapingResult is returned.
FoldAndReturn ==
    /\ scraper = "unified"
    /\ spa_pc = "gather"
    /\ \A i \in 1..Len(results) : results[i] # Pending
    /\ all_products' = FoldResults(all_products, results, 1)
    /\ browser_closed' = TRUE
    /\ UNCHANGED <<config_returned, config_products>>
    /\ spa_result' = [returned |-> TRUE, products |-> all_products',
                       interactions_performed |-> interactions_performed,
                       content_states |-> content_states, error |-> "none"]
    /\ spa_pc' = "done"
    /\ UNCHANGED <<element_signature, unknown_seq, clicked_signatures, scroll_attempted,
                   seen_content_hashes, elements_found, element_idx, scraper, max_interactions, interaction_num, content_states,
                   collected_htmls, interactions_performed, interacted_elements,
                   selector_idx, clicked_element, click_success, methods_tried,
                   results, duplicate_seen, driver_refused, llm_inputs>>

\* str(e) of the exception caught: a message, or the empty string (an
\* exception built without arguments, such as asyncio.TimeoutError()).
ErrorTexts == {"page", ""}

ErrorResult_Partial(text) ==
    [returned |-> TRUE, products |-> <<>>, interactions_performed |-> interactions_performed,
     content_states |-> content_states, error |-> text]

\* The SPAScrapingResult of the except branch.
ErrorResult(text) ==
    [returned |-> TRUE, products |-> <<>>, interactions_performed |-> 0,
     content_states |-> <<>>, error |-> text]

\* page.content() or the wait after an interaction raised: the except
\* branch of scrape_spa_content returns a result that carries the error,
\* and the finally clause closes the browser.
PageError ==
    /\ scraper = "unified"
    /\ spa_pc = "loop"
    /\ interaction_num < max_interactions
    /\ \E text \in ErrorTexts : spa_result' = ErrorResult(text)
    /\ spa_pc' = "done"
    /\ browser_closed' = TRUE
    /\ UNCHANGED <<config_returned, config_products>>
    /\ UNCHANGED <<element_signature, unknown_seq, clicked_signatures, scroll_attempted,
                   seen_content_hashes, elements_found, element_idx, scraper, max_interactions, interaction_num, content_states,
                   collected_htmls, interactions_performed, interacted_elements,
                   selector_idx, clicked_element, click_success, methods_tried,
                   results, all_products, duplicate_seen, driver_refused,
                   llm_inputs>>

\* if result.error: the truth value of an Optional[str].
Truthy(error) == error # "none" /\ error # ""

\* The SPA branch of UnifiedConfigurableScraper.scrape_by_config after
\* scrape_spa_content returned: the products of the result are added
\* unless its error is truthy.  The scraper is one the branch has just
\* created, so the call is its first.
CollectSpaResult ==
    /\ scraper = "unified"
    /\ spa_pc = "done"
    /\ ~reused
    /\ ~config_returned
    /\ config_returned' = TRUE
    /\ config_products' = IF Truthy(spa_result.error) THEN config_products
                           ELSE config_products \o spa_result.products
    /\ UNCHANGED <<browser_closed, spaVars>>

UnifiedNext ==
    \/ CollectSpaResult /\ UNCHANGED <<extractVars, crawlVars, renderVars, productVars, sitemapVars, sessionVars, mergeVars, priceVars, interactionVars, orderVars, parseVars, gatherVars>>
    \/ CaptureContent /\ UNCHANGED <<extractVars, crawlVars, renderVars, productVars, sitemapVars, sessionVars, mergeVars, priceVars, interactionVars, orderVars, parseVars, gatherVars, configVars>>
    \/ SelectElement /\ UNCHANGED <<extractVars, crawlVars, renderVars, productVars, sitemapVars, sessionVars, mergeVars, priceVars, orderVars, parseVars, gatherVars, configVars>>
    \/ PreClickError /\ UNCHANGED <<extractVars, crawlVars, renderVars, productVars, sitemapVars, sessionVars, mergeVars, priceVars, orderVars, parseVars, gatherVars, configVars>>
    \/ TryClick /\ UNCHANGED <<extractVars, crawlVars, renderVars, productVars, sitemapVars, sessionVars, mergeVars, priceVars, orderVars, parseVars, gatherVars, configVars>>
    \/ ClickSucceeded /\ UNCHANGED <<extractVars, crawlVars, renderVars, productVars, sitemapVars, sessionVars, mergeVars, priceVars, orderVars, parseVars, gatherVars, configVars>>
    \/ PostClickError /\ UNCHANGED <<extractVars, crawlVars, renderVars, productVars, sitemapVars, sessionVars, mergeVars, priceVars, orderVars, parseVars, gatherVars, configVars>>
    \/ ScrollOrGiveUp /\ UNCHANGED <<extractVars, crawlVars, renderVars, productVars, sitemapVars, sessionVars, mergeVars, priceVars, orderVars, parseVars, gatherVars, configVars>>
    \/ DispatchExtraction /\ UNCHANGED <<extractVars, crawlVars, renderVars, productVars, sitemapVars, sessionVars, mergeVars, priceVars, interactionVars, orderVars, parseVars, gatherVars>>
    \/ \E i \in 1..MaxInteractions : ExtractionDone(i) /\ UNCHANGED <<extractVars, crawlVars, renderVars, productVars, sitemapVars, sessionVars, mergeVars, priceVars, interactionVars, orderVars, parseVars, gatherVars, configVars>>
    \/ FoldAndReturn /\ UNCHANGED <<extractVars, crawlVars, renderVars, productVars, sitemapVars, sessionVars, mergeVars, priceVars, interactionVars, orderVars, parseVars, gatherVars>>
    \/ PageError /\ UNCHANGED <<extractVars, crawlVars, renderVars, productVars, sitemapVars, sessionVars, mergeVars, priceVars, interactionVars, orderVars, parseVars, gatherVars>>

(***************************************************************************)
(* SPAContentScraper.scrape_spa_content and _perform_spa_interactions      *)
(*                                                                         *)
(* Every document of Contents is longer than 5000 characters, so that      *)
(* _extract_products_from_content always reaches the LLM extractor.        *)
(***************************************************************************)

\* spa_config.click_elements (a sample of a site configuration).
click_elements == <<".tab-button", ".category-btn">>

\* elements[:5]
ElementsCap == 5

\* The numbers of elements page.query_selector_all can return.
FoundCounts == {0, 2, ElementsCap + 1}

RECURSIVE FilterUnique(_, _, _)
\* The second loop of _filter_unique_products: a product is kept when its
\* key is not known yet, and its key becomes known.
FilterUnique(new_products, existing_keys, i) ==
    IF i > Len(new_products) THEN <<>>
    ELSE IF Key(new_products[i]) \in existing_keys
         THEN FilterUnique(new_products, existing_keys, i + 1)
         ELSE <<new_products[i]>> \o
              FilterUnique(new_products, existing_keys \cup {Key(new_products[i])}, i + 1)

\* SPAContentScraper._filter_unique_products
filter_unique_products(new_products, existing_products) ==
    FilterUnique(new_products, {Key(p) : p \in Range(existing_products)}, 1)

LegacyInit ==
    /\ scraper = "legacy"
    /\ spa_pc = "initial"
    /\ max_interactions \in 1..MaxInteractions
    /\ interaction_num = 0
    /\ content_states = <<>>
    /\ collected_htmls = <<>>
    /\ interactions_performed = 0
    /\ interacted_elements = {}
    /\ selector_idx = 0
    /\ clicked_element = "none"
    /\ click_success = FALSE
    /\ methods_tried = 0
    /\ results = <<>>
    /\ all_products = <<>>
    /\ spa_result = NoResult
    /\ duplicate_seen = FALSE
    /\ driver_refused = FALSE
    /\ llm_inputs = <<>>
    /\ seen_content_hashes = {}
    /\ elements_found = 0
    /\ element_idx = 0
    /\ element_signature = "none"
    /\ unknown_seq = 0
    /\ clicked_signatures = {}
    /\ scroll_attempted = FALSE

\* The variables only UnifiedSPAContentScraper uses.
unifiedOnly == <<interaction_num, collected_htmls, interacted_elements,
                 clicked_element, click_success, methods_tried, results,
                 driver_refused, element_signature, unknown_seq,
                 clicked_signatures, scroll_attempted>>

\* The initial content is captured, its fingerprint recorded, and its
\* products extracted and appended as they are.
InitialCapture ==
    /\ scraper = "legacy"
    /\ spa_pc = "initial"
    /\ \E initial_content \in Contents, r \in ExtractionResults :
          /\ seen_content_hashes' = {PrefixHash(initial_content)}
          /\ llm_inputs' = Append(llm_inputs, PrefixHash(initial_content))
          /\ all_products' = all_products \o Items(r, 1)
          /\ content_states' = Append(content_states, Len(r))
    /\ selector_idx' = 1
    /\ spa_pc' = "selector"
    /\ UNCHANGED <<scraper, max_interactions, interactions_performed, spa_result,
                   duplicate_seen, elements_found, element_idx>>
    /\ UNCHANGED unifiedOnly

\* page.content() raised before the loop: scrape_spa_content returns the
\* error result.
InitialError ==
    /\ scraper = "legacy"
    /\ spa_pc = "initial"
    /\ spa_result' = [returned |-> TRUE, products |-> <<>>, interactions_performed |-> 0,
                       content_states |-> <<>>, error |-> "page"]
    /\ spa_pc' = "done"
    /\ UNCHANGED <<scraper, max_interactions, interactions_performed, content_states,
                   all_products, duplicate_seen, llm_inputs, seen_content_hashes,
                   selector_idx, elements_found, element_idx>>
    /\ UNCHANGED unifiedOnly

\* not (interactions_count >= self.spa_config.max_interactions)
BudgetLeft(count, max) == count < max

\* The head of the loop over click_elements: the loop ends when the list or
\* the budget is used up; otherwise the selector is queried, and a query
\* that raises or finds nothing moves on to the next selector.
NextSelector ==
    /\ scraper = "legacy"
    /\ spa_pc = "selector"
    /\ IF selector_idx > Len(click_elements)
          \/ ~BudgetLeft(interactions_performed, max_interactions)
       THEN /\ spa_result' = [returned |-> TRUE, products |-> all_products,
                               interactions_performed |-> interactions_performed,
                               content_states |-> content_states, error |-> "none"]
            /\ spa_pc' = "done"
            /\ UNCHANGED <<selector_idx, elements_found, element_idx>>
       ELSE /\ spa_result' = spa_result
            /\ \E raised \in BOOLEAN, n \in FoundCounts :
                  IF raised \/ n = 0
                  THEN /\ selector_idx' = selector_idx + 1
                       /\ spa_pc' = "selector"
                       /\ UNCHANGED <<elements_found, element_idx>>
                  ELSE /\ elements_found' = Min(n, ElementsCap)
                       /\ element_idx' = 1
                       /\ selector_idx' = selector_idx
                       /\ spa_pc' = "element"
    /\ UNCHANGED <<scraper, max_interactions, interactions_performed, content_states,
                   all_products, duplicate_seen, llm_inputs, seen_content_hashes>>
    /\ UNCHANGED unifiedOnly

\* The inner loop is over, by exhaustion or by the budget: next selector.
ElementsDone ==
    /\ scraper = "legacy"
    /\ spa_pc = "element"
    /\ \/ element_idx > elements_found
       \/ ~BudgetLeft(interactions_performed, max_interactions)
    /\ selector_idx' = selector_idx + 1
    /\ spa_pc' = "selector"
    /\ UNCHANGED <<scraper, max_interactions, interactions_performed, content_states,
                   all_products, spa_result, duplicate_seen, llm_inputs,
                   seen_content_hashes, elements_found, element_idx>>
    /\ UNCHANGED unifiedOnly

\* An element that is not visible, or whose visibility test, scroll or
\* click raised: nothing is counted and the next element is taken.
SkipElement ==
    /\ scraper = "legacy"
    /\ spa_pc = "element"
    /\ element_idx <= elements_found
    /\ BudgetLeft(interactions_performed, max_interactions)
    /\ element_idx' = element_idx + 1
    /\ UNCHANGED <<scraper, spa_pc, max_interactions, interactions_performed,
                   content_states, all_products, spa_result, duplicate_seen,
                   llm_inputs, seen_content_hashes, selector_idx, elements_found>>
    /\ UNCHANGED unifiedOnly

\* A visible element is clicked and counted; the content that follows is
\* extracted when its fingerprint is new, and the products that
\* _filter_unique_products keeps are appended.
ClickElement ==
    /\ scraper = "legacy"
    /\ spa_pc = "element"
    /\ element_idx <= elements_found
    /\ BudgetLeft(interactions_performed, max_interactions)
    /\ interactions_performed' = interactions_performed + 1
    /\ \E new_content \in Contents, r \in ExtractionResults :
          LET new_hash == PrefixHash(new_content)
              new_products == Items(r, Len(llm_inputs) + 1)
              unique_new_products == filter_unique_products(new_products, all_products)
          IN  IF new_hash \notin seen_content_hashes
              THEN /\ seen_content_hashes' = seen_content_hashes \cup {new_hash}
                   /\ llm_inputs' = Append(llm_inputs, new_hash)
                   /\ all_products' = all_products \o unique_new_products
                   /\ content_states' =
                         IF unique_new_products # <<>>
                         THEN Append(content_states, Len(unique_new_products))
                         ELSE content_states
                   /\ duplicate_seen' = duplicate_seen
              ELSE /\ duplicate_seen' = TRUE
                   /\ UNCHANGED <<seen_content_hashes, llm_inputs, all_products,
                                  content_states>>
    /\ element_idx' = element_idx + 1
    /\ UNCHANGED <<scraper, spa_pc, max_interactions, spa_result, selector_idx,
                   elements_found>>
    /\ UNCHANGED unifiedOnly

\* page.content() after the click raised: the click stays counted, nothing
\* is extracted.
ClickThenError ==
    /\ scraper = "legacy"
    /\ spa_pc = "element"
    /\ element_idx <= elements_found
    /\ BudgetLeft(interactions_performed, max_interactions)
    /\ interactions_performed' = interactions_performed + 1
    /\ element_idx' = element_idx + 1
    /\ UNCHANGED <<scraper, spa_pc, max_interactions, content_states, all_products,
                   spa_result, duplicate_seen, llm_inputs, seen_content_hashes,
                   selector_idx, elements_found>>
    /\ UNCHANGED unifiedOnly

LegacyNext ==
    \/ InitialCapture /\ UNCHANGED <<extractVars, crawlVars, renderVars, productVars, sitemapVars, sessionVars, mergeVars, priceVars, interactionVars, orderVars, parseVars, gatherVars, configVars>>
    \/ InitialError /\ UNCHANGED <<extractVars, crawlVars, renderVars, productVars, sitemapVars, sessionVars, mergeVars, priceVars, interactionVars, orderVars, parseVars, gatherVars, configVars>>
    \/ NextSelector /\ UNCHANGED <<extractVars, crawlVars, renderVars, productVars, sitemapVars, sessionVars, mergeVars, priceVars, interactionVars, orderVars, parseVars, gatherVars, configVars>>
    \/ ElementsDone /\ UNCHANGED <<extractVars, crawlVars, renderVars, productVars, sitemapVars, sessionVars, mergeVars, priceVars, interactionVars, orderVars, parseVars, gatherVars, configVars>>
    \/ SkipElement /\ UNCHANGED <<extractVars, crawlVars, renderVars, productVars, sitemapVars, sessionVars, mergeVars, priceVars, interactionVars, orderVars, parseVars, gatherVars, configVars>>
    \/ ClickElement /\ UNCHANGED <<extractVars, crawlVars, renderVars, productVars, sitemapVars, sessionVars, mergeVars, priceVars, interactionVars, orderVars, parseVars, gatherVars, configVars>>
    \/ ClickThenError /\ UNCHANGED <<extractVars, crawlVars, renderVars, productVars, sitemapVars, sessionVars, mergeVars, priceVars, interactionVars, orderVars, parseVars, gatherVars, configVars>>

SPANext == UnifiedNext \/ LegacyNext

InitSPA ==
    (UnifiedInit \/ LegacyInit) /\ ExtractIdle /\ CrawlIdle /\ RenderIdle /\ ProductIdle
        /\ SitemapIdle
        /\ SessionIdle
        /\ MergeIdle
        /\ PriceIdle
        /\ InteractionIdle
        /\ OrderIdle
        /\ ParseIdle
        /\ GatherIdle
        /\ ConfigIdle

SpecSPA == InitSPA /\ [][SPANext]_vars

(***************************************************************************)
(* Phase 2 of scrape_spa_content on its own: the extraction tasks of the   *)
(* collected snapshots end in any order, then their results are folded.    *)
(***************************************************************************)
\* After asyncio.gather was called on one task per collected snapshot.
GatherInit ==
    /\ gather_pc = "gather"
    /\ \E n \in 1..MaxInteractions : task_results = [i \in 1..n |-> Pending]
    /\ completion_order = <<>>
    /\ folded_products = <<>>

\* process_single_html for snapshot i ends.
TaskEnds(i) ==
    /\ gather_pc = "gather"
    /\ i \in 1..Len(task_results)
    /\ task_results[i] = Pending
    /\ \E r \in ExtractionResults : task_results' = [task_results EXCEPT ![i] = Items(r, i)]
    /\ completion_order' = Append(completion_order, i)
    /\ UNCHANGED <<gather_pc, folded_products>>

\* gather returned: the loop over the results.
FoldGathered ==
    /\ gather_pc = "gather"
    /\ \A i \in 1..Len(task_results) : task_results[i] # Pending
    /\ folded_products' = FoldResults(<<>>, task_results, 1)
    /\ gather_pc' = "folded"
    /\ UNCHANGED <<task_results, completion_order>>

GatherNext ==
    \/ \E i \in 1..MaxInteractions : TaskEnds(i) /\ UNCHANGED <<extractVars, spaVars, crawlVars, renderVars, productVars, sitemapVars, sessionVars, mergeVars, priceVars, interactionVars, orderVars, parseVars, configVars>>
    \/ FoldGathered /\ UNCHANGED <<extractVars, spaVars, crawlVars, renderVars, productVars, sitemapVars, sessionVars, mergeVars, priceVars, interactionVars, orderVars, parseVars, configVars>>

InitGather ==
    GatherInit /\ ExtractIdle /\ SpaIdle /\ CrawlIdle /\ RenderIdle /\ ProductIdle
        /\ SitemapIdle /\ SessionIdle /\ MergeIdle /\ PriceIdle /\ InteractionIdle
        /\ OrderIdle /\ ParseIdle
        /\ ConfigIdle

SpecGather == InitGather /\ [][GatherNext]_vars

(***************************************************************************)
(* A UnifiedSPAContentScraper that is used for more than one URL.          *)
(*                                                                         *)
(* scrape_spa_content builds content_states, all_products,                 *)
(* interactions_performed and collected_htmls anew on every call;          *)
(* self.interacted_elements is a field of the scraper object.              *)
(***************************************************************************)
\* self.interacted_elements is assigned in __init__ only: the next call
\* starts with whatever the calls before it left in the set.
AtCallStart(interacted) == interacted

\* scrape_spa_content returned and is called on the same object for a
\* second URL.
ScrapeAgain ==
    /\ scraper = "unified"
    /\ spa_pc = "done"
    /\ ~reused
    /\ reused' = TRUE
    /\ browser_closed' = FALSE
    /\ config_returned' = FALSE
    /\ config_products' = <<>>
    /\ spa_pc' = "loop"
    /\ interacted_elements' = AtCallStart(interacted_elements)
    /\ interaction_num' = 0
    /\ content_states' = <<>>
    /\ collected_htmls' = <<>>
    /\ interactions_performed' = 0
    /\ selector_idx' = 0
    /\ clicked_element' = "none"
    /\ click_success' = FALSE
    /\ methods_tried' = 0
    /\ results' = <<>>
    /\ all_products' = <<>>
    /\ spa_result' = NoResult
    /\ duplicate_seen' = FALSE
    /\ driver_refused' = FALSE
    /\ llm_inputs' = <<>>
    /\ element_signature' = "none"
    /\ scroll_attempted' = FALSE
    /\ UNCHANGED <<scraper, max_interactions, unknown_seq, clicked_signatures,
                   seen_content_hashes, elements_found, element_idx>>

SessionNext ==
    \/ UnifiedNext
    \/ ScrapeAgain /\ UNCHANGED <<extractVars, crawlVars, renderVars, productVars, sitemapVars, mergeVars, priceVars, interactionVars, orderVars, parseVars, gatherVars>>

InitSession ==
    UnifiedInit /\ ExtractIdle /\ CrawlIdle /\ RenderIdle /\ ProductIdle
        /\ SitemapIdle /\ SessionIdle
        /\ MergeIdle
        /\ PriceIdle
        /\ InteractionIdle
        /\ OrderIdle
        /\ ParseIdle
        /\ GatherIdle
        /\ ConfigIdle

SpecSession == InitSession /\ [][SessionNext]_vars

(***************************************************************************)
(* AsyncLLMWebCrawler.crawl_and_extract                                    *)
(***************************************************************************)
Urls == 1..NumUrls

\* batch_size = min(self.max_concurrent, 5)
BatchCap == 5

\* The values of max_concurrent: below the cap of a batch and above it.
ConcurrencyLevels == {1, 2, BatchCap + 1}

\* content=None in every LLMCrawlResult _fetch_and_process_page builds.
NoContent == "None"

\* After __init__, the frontier built from start_urls and the sitemap.
CrawlInit ==
    /\ crawl_pc = "loop"
    /\ max_pages \in 1..MaxPages
    /\ max_concurrent \in ConcurrencyLevels
    /\ urls_to_visit \in (SUBSET Urls) \ {{}}
    /\ visited_urls = {}
    /\ current_batch = {}
    /\ crawl_results = {}
    /\ time_up = FALSE
    /\ in_flight = {}
    /\ unit_results = <<>>
    /\ page_links = {}

should_stop_crawling_TimeOnly(elapsed_over, visited, pages) == elapsed_over

\* AsyncLLMWebCrawler._should_stop_crawling
should_stop_crawling(elapsed_over, visited, pages) ==
    IF elapsed_over THEN TRUE
    ELSE IF Cardinality(visited) >= pages THEN TRUE
    ELSE FALSE

Batches_Empty(frontier, batch_size) == {{}}

\* list(urls_to_visit)[:batch_size]: the first batch_size URLs in the
\* iteration order of the set, which is any order.
Batches(frontier, batch_size) ==
    {b \in SUBSET frontier : Cardinality(b) = Min(batch_size, Cardinality(frontier))}

WithoutBatch_Kept(frontier, batch) == frontier

\* urls_to_visit -= set(current_batch)
WithoutBatch(frontier, batch) == frontier \ batch

\* The head of the while loop with the body up to gather: the loop ends on
\* an empty frontier or a stop condition; otherwise a batch is taken from
\* the frontier and marked as visited, and its pages are dispatched.
TakeBatch ==
    /\ crawl_pc = "loop"
    /\ \E elapsed_over \in {time_up, TRUE} :
          /\ time_up' = elapsed_over
          /\ IF urls_to_visit = {}
                \/ should_stop_crawling(elapsed_over, visited_urls, max_pages)
             THEN /\ crawl_pc' = "done"
                  /\ UNCHANGED <<urls_to_visit, visited_urls, current_batch, unit_results,
                                 page_links>>
             ELSE \E batch \in Batches(urls_to_visit, Min(max_concurrent, BatchCap)) :
                     /\ current_batch' = batch
                     /\ unit_results' = <<>>
                     /\ page_links' = {}
                     /\ urls_to_visit' = WithoutBatch(urls_to_visit, batch)
                     /\ visited_urls' = visited_urls \cup batch
                     /\ crawl_pc' = "batch"
    /\ UNCHANGED <<max_pages, max_concurrent, crawl_results, in_flight>>

\* The URLs a result contributes to the frontier: those extracted from its
\* content, when it has content and status 200, that are not visited.
NewUrls(result, links, visited) ==
    IF result.content # NoContent /\ result.status_code = 200
    THEN links \ visited
    ELSE {}

\* The links _extract_urls_from_content can find in a page: none, or all.
Links == {{}, Urls}

\* How one fetch-and-extract can end: rendered and extracted, timed out, or
\* failed with another exception.
Outcomes == {"ok", "timeout", "error"}

PageResult_Raises(url, outcome) ==
    [kind |-> IF outcome = "ok" THEN "LLMCrawlResult" ELSE "Exception",
     url |-> url, content |-> NoContent,
     status_code |-> IF outcome = "ok" THEN 200 ELSE 0,
     products |-> IF outcome = "ok" THEN <<"products">> ELSE <<>>,
     error |-> "None", processing_time |-> "unset"]

\* The LLMCrawlResult _fetch_and_process_page returns for url: the products
\* with status_code 200, or status_code 0, no product and the error; the
\* time elapsed since start_time in every case.
PageResult(url, outcome) ==
    [kind |-> "LLMCrawlResult", url |-> url, content |-> NoContent,
     status_code |-> IF outcome = "ok" THEN 200 ELSE 0,
     products |-> IF outcome = "ok" THEN <<"products">> ELSE <<>>,
     error |-> IF outcome = "ok" THEN "None"
               ELSE IF outcome = "timeout" THEN "Timeout" ELSE "str(e)",
     processing_time |-> "elapsed"]

\* asyncio.Semaphore(self.max_concurrent): a permit is free.
SemaphoreFree(holders, permits) == Cardinality(holders) < permits

\* A task of the batch enters "async with semaphore".
StartUnit(u) ==
    /\ crawl_pc = "batch"
    /\ u \in current_batch
    /\ u \notin in_flight
    /\ u \notin DOMAIN unit_results
    /\ SemaphoreFree(in_flight, max_concurrent)
    /\ in_flight' = in_flight \cup {u}
    /\ UNCHANGED <<crawl_pc, max_pages, max_concurrent, urls_to_visit, visited_urls,
                   current_batch, crawl_results, time_up, unit_results, page_links>>

\* A task ends, releases the semaphore and returns its result.
FinishUnit(u) ==
    /\ u \in in_flight
    /\ \E outcome \in Outcomes :
          unit_results' = (u :> PageResult(u, outcome)) @@ unit_results
    /\ in_flight' = in_flight \ {u}
    /\ UNCHANGED <<crawl_pc, max_pages, max_concurrent, urls_to_visit, visited_urls,
                   current_batch, crawl_results, time_up, page_links>>

GatherReturned_Early(batch, finished) == TRUE

\* await asyncio.gather(*tasks, return_exceptions=True) returns when every
\* task of the batch has ended.
GatherReturned(batch, finished) == batch \subseteq finished

\* gather returned: every result that is an LLMCrawlResult is appended, the
\* frontier is extended by the URLs found, and the loop ends when the
\* frontier is empty.
BatchDone ==
    /\ crawl_pc = "batch"
    /\ GatherReturned(current_batch, DOMAIN unit_results)
    /\ \E links \in Links :
          LET batch_results == {unit_results[u] : u \in DOMAIN unit_results}
              crawl_result_objects == {r \in batch_results : r.kind = "LLMCrawlResult"}
          IN  /\ page_links' = links
              /\ crawl_results' = crawl_results \cup crawl_result_objects
              /\ urls_to_visit' = urls_to_visit \cup
                    UNION {NewUrls(r, links, visited_urls) : r \in crawl_result_objects}
    /\ current_batch' = {}
    /\ crawl_pc' = IF urls_to_visit' = {} THEN "done" ELSE "loop"
    /\ UNCHANGED <<max_pages, max_concurrent, visited_urls, time_up, in_flight,
                   unit_results>>

CrawlNext ==
    \/ TakeBatch /\ UNCHANGED <<extractVars, spaVars, renderVars, productVars, sitemapVars, sessionVars, mergeVars, priceVars, interactionVars, orderVars, parseVars, gatherVars, configVars>>
    \/ \E u \in Urls : StartUnit(u) /\ UNCHANGED <<extractVars, spaVars, renderVars, productVars, sitemapVars, sessionVars, mergeVars, priceVars, interactionVars, orderVars, parseVars, gatherVars, configVars>>
    \/ \E u \in Urls : FinishUnit(u) /\ UNCHANGED <<extractVars, spaVars, renderVars, productVars, sitemapVars, sessionVars, mergeVars, priceVars, interactionVars, orderVars, parseVars, gatherVars, configVars>>
    \/ BatchDone /\ UNCHANGED <<extractVars, spaVars, renderVars, productVars, sitemapVars, sessionVars, mergeVars, priceVars, interactionVars, orderVars, parseVars, gatherVars, configVars>>

InitCrawl == CrawlInit /\ ExtractIdle /\ SpaIdle /\ RenderIdle /\ ProductIdle
        /\ SitemapIdle
        /\ SessionIdle
        /\ MergeIdle
        /\ PriceIdle
        /\ InteractionIdle
        /\ OrderIdle
        /\ ParseIdle
        /\ GatherIdle
        /\ ConfigIdle

SpecCrawl == InitCrawl /\ [][CrawlNext]_vars

\* The event loop runs every coroutine that can go on: the loop of
\* crawl_and_extract, a task waiting for a free permit of the semaphore,
\* gather once its tasks have ended; a page that was dispatched ends.
CrawlFairness ==
    LET others == <<extractVars, spaVars, renderVars, productVars, sitemapVars, sessionVars,
                    mergeVars, priceVars, interactionVars, orderVars, parseVars, gatherVars,
                    configVars>>
    IN  /\ WF_vars(TakeBatch /\ UNCHANGED others)
        /\ WF_vars(BatchDone /\ UNCHANGED others)
        /\ \A u \in Urls : /\ WF_vars(StartUnit(u) /\ UNCHANGED others)
                           /\ WF_vars(FinishUnit(u) /\ UNCHANGED others)

\* The frontiers of every size, with batches below the cap: which URLs a
\* frontier of a given size holds makes no difference to the loop, and a
\* batch of five pages leaves the loop the way a batch of two does.
InitCrawlLive ==
    /\ InitCrawl
    /\ \E n \in Urls : urls_to_visit = 1..n
    /\ max_concurrent < BatchCap

SpecCrawlLive == InitCrawlLive /\ [][CrawlNext]_vars /\ CrawlFairness

(***************************************************************************)
(* The page renderer: _fetch_rendered_html of UnifiedLLMTreatmentExtractor *)
(* and of LLMTreatmentExtractor, which have the same structure.            *)
(*                                                                         *)
(*   try:                                                                  *)
(*       async with async_playwright() as p:                               *)
(*           browser = await p.chromium.launch(headless=True)              *)
(*           context = await browser.new_context(...)                      *)
(*           page = await context.new_page()                               *)
(*           try:        ... the page steps ...; return content            *)
(*           except Exception:  return None                                *)
(*           finally:    await browser.close()                             *)
(*   except Exception:   return None                                       *)
(***************************************************************************)
Renderers == {"unified", "legacy"}

\* The awaits of the inner try block, in order.
PageSteps ==
    <<"goto", "wait_for_timeout", "wait_for_selector", "wait_for_timeout",
      "wait_for_load_state", "content">>

\* The awaits that sit in a try/except-pass of their own.
Swallowed(step) == step \in {"wait_for_selector", "wait_for_load_state"}

\* What an awaited Playwright call does: it returns, times out or fails
\* otherwise.
CallOutcomes == {"ok", "TimeoutError", "Exception"}

RenderInit ==
    /\ renderer \in Renderers
    /\ render_pc = "start"
    /\ render_url \in Urls
    /\ render_step = 0
    /\ browser_launched = FALSE
    /\ close_called = FALSE
    /\ playwright_exited = FALSE
    /\ raised_in = <<>>
    /\ render_pending = "none"
    /\ render_ret = "none"

\* An exception leaves the async with block and reaches the outer except
\* clause, which returns None.
OuterExcept(call, outcome) ==
    /\ raised_in' = <<call, outcome>>
    /\ playwright_exited' = TRUE
    /\ render_ret' = "None"
    /\ render_pc' = "returned"

\* async with async_playwright() as p: browser = await p.chromium.launch(...)
Launch ==
    /\ render_pc = "start"
    /\ \E outcome \in CallOutcomes :
          IF outcome = "ok"
          THEN /\ browser_launched' = TRUE
               /\ render_pc' = "new_context"
               /\ UNCHANGED <<playwright_exited, raised_in, render_ret>>
          ELSE /\ OuterExcept("launch", outcome)
               /\ UNCHANGED browser_launched
    /\ UNCHANGED <<renderer, render_url, render_step, close_called, render_pending>>

\* context = await browser.new_context(...), outside the inner try.
NewContext ==
    /\ render_pc = "new_context"
    /\ \E outcome \in CallOutcomes :
          IF outcome = "ok"
          THEN /\ render_pc' = "new_page"
               /\ UNCHANGED <<playwright_exited, raised_in, render_ret>>
          ELSE OuterExcept("new_context", outcome)
    /\ UNCHANGED <<renderer, render_url, render_step, browser_launched,
                   close_called, render_pending>>

\* page = await context.new_page(), outside the inner try.
NewPage ==
    /\ render_pc = "new_page"
    /\ \E outcome \in CallOutcomes :
          IF outcome = "ok"
          THEN /\ render_pc' = "page"
               /\ render_step' = 1
               /\ UNCHANGED <<playwright_exited, raised_in, render_ret>>
          ELSE /\ OuterExcept("new_page", outcome)
               /\ UNCHANGED render_step
    /\ UNCHANGED <<renderer, render_url, browser_launched, close_called,
                   render_pending>>

\* One await of the inner try block.  An exception of a swallowed step is
\* passed over; any other exception reaches the inner except clause, whose
\* return None waits for the finally clause, as does return content.
PageStep ==
    /\ render_pc = "page"
    /\ LET step == PageSteps[render_step]
       IN  \E outcome \in CallOutcomes :
              IF outcome = "ok" \/ Swallowed(step)
              THEN /\ IF render_step = Len(PageSteps)
                      THEN /\ render_pending' = "content"
                           /\ render_pc' = "finally"
                           /\ UNCHANGED render_step
                      ELSE /\ render_step' = render_step + 1
                           /\ UNCHANGED <<render_pending, render_pc>>
                   /\ UNCHANGED raised_in
              ELSE /\ raised_in' = <<step, outcome>>
                   /\ render_pending' = "None"
                   /\ render_pc' = "finally"
                   /\ UNCHANGED render_step
    /\ UNCHANGED <<renderer, render_url, browser_launched, close_called,
                   playwright_exited, render_ret>>

\* finally: await browser.close().  When close() raises, its exception
\* replaces the pending return and reaches the outer except clause.
CloseBrowser ==
    /\ render_pc = "finally"
    /\ close_called' = TRUE
    /\ \E outcome \in CallOutcomes :
          IF outcome = "ok"
          THEN /\ render_ret' = render_pending
               /\ playwright_exited' = TRUE
               /\ render_pc' = "returned"
               /\ UNCHANGED raised_in
          ELSE OuterExcept("close", outcome)
    /\ UNCHANGED <<renderer, render_url, render_step, browser_launched,
                   render_pending>>

RenderNext ==
    \/ Launch /\ UNCHANGED <<extractVars, spaVars, crawlVars, productVars, sitemapVars, sessionVars, mergeVars, priceVars, interactionVars, orderVars, parseVars, gatherVars, configVars>>
    \/ NewContext /\ UNCHANGED <<extractVars, spaVars, crawlVars, productVars, sitemapVars, sessionVars, mergeVars, priceVars, interactionVars, orderVars, parseVars, gatherVars, configVars>>
    \/ NewPage /\ UNCHANGED <<extractVars, spaVars, crawlVars, productVars, sitemapVars, sessionVars, mergeVars, priceVars, interactionVars, orderVars, parseVars, gatherVars, configVars>>
    \/ PageStep /\ UNCHANGED <<extractVars, spaVars, crawlVars, productVars, sitemapVars, sessionVars, mergeVars, priceVars, interactionVars, orderVars, parseVars, gatherVars, configVars>>
    \/ CloseBrowser /\ UNCHANGED <<extractVars, spaVars, crawlVars, productVars, sitemapVars, sessionVars, mergeVars, priceVars, interactionVars, orderVars, parseVars, gatherVars, configVars>>

InitRender == RenderInit /\ ExtractIdle /\ SpaIdle /\ CrawlIdle /\ ProductIdle
        /\ SitemapIdle
        /\ SessionIdle
        /\ MergeIdle
        /\ PriceIdle
        /\ InteractionIdle
        /\ OrderIdle
        /\ ParseIdle
        /\ GatherIdle
        /\ ConfigIdle

SpecRender == InitRender /\ [][RenderNext]_vars

(***************************************************************************)
(* Products of a parsed response: the loop over data.get("products", [])   *)
(* in _parse_llm_response, _create_product_item and                        *)
(* _create_individual_treatment.                                           *)
(*                                                                         *)
(* A JSON value read for a name is absent (the key is missing), null, or a *)
(* string, kept as its sequence of characters.  The other fields of a dict *)
(* either suit the pydantic model or make its constructor raise.           *)
(***************************************************************************)
MaxProducts == 2
MaxTreatments == 2

Str(chars) == [kind |-> "str", chars |-> chars]
Absent == [kind |-> "absent", chars |-> <<>>]
Null == [kind |-> "null", chars |-> <<>>]

ProductNames == {Absent, Null, Str(<<>>), Str(<<" ">>), Str(<<" ", "B">>)}
TreatmentNames == {Absent, Null, Str(<<" ">>), Str(<<"L", " ">>)}

SeqsUpTo(S, n) == UNION {[1..k -> S] : k \in 0..n}

\* The other fields matter only when the name is usable.
TreatmentData ==
    [name : TreatmentNames, fields_ok : {TRUE}]
        \cup [name : {Str(<<"L", " ">>)}, fields_ok : {FALSE}]

TreatmentLists ==
    {[kind |-> "absent", items |-> <<>>], [kind |-> "null", items |-> <<>>]}
        \cup {[kind |-> "list", items |-> ts] :
                 ts \in SeqsUpTo(TreatmentData, MaxTreatments)}

ProductData ==
    [product_name : ProductNames, treatments : TreatmentLists, fields_ok : BOOLEAN]

RECURSIVE LStrip(_)
LStrip(chars) ==
    IF chars # <<>> /\ Head(chars) = " " THEN LStrip(Tail(chars)) ELSE chars

RECURSIVE RStrip(_)
RStrip(chars) ==
    IF chars # <<>> /\ chars[Len(chars)] = " "
    THEN RStrip(SubSeq(chars, 1, Len(chars) - 1))
    ELSE chars

\* str.strip()
Strip(chars) == RStrip(LStrip(chars))

\* Results of a block of code: the value it returns, or that it raised.
\* An Optional value is a sequence of no or one element.
Returns(v) == [raised |-> FALSE, value |-> v]
Raises == [raised |-> TRUE, value |-> <<>>]

\* d.get(key, "").strip(): the default for a missing key, AttributeError on
\* null.
GetStripped(field) ==
    CASE field.kind = "absent" -> Returns(Strip(<<>>))
      [] field.kind = "null" -> Raises
      [] OTHER -> Returns(Strip(field.chars))

\* try: ... except Exception: return None
Caught(r) == IF r.raised THEN Returns(<<>>) ELSE r

\* _create_individual_treatment
create_individual_treatment(treatment_data) ==
    Caught(LET name == GetStripped(treatment_data.name)
           IN  IF name.raised THEN Raises
               ELSE IF name.value = <<>> THEN Returns(<<>>)
               ELSE IF ~treatment_data.fields_ok THEN Raises
               ELSE Returns(<<[name |-> name.value]>>))

\* The treatments loop of _create_product_item over the first i dicts.
RECURSIVE CollectTreatments(_, _)
CollectTreatments(items, i) ==
    IF i = 0 THEN Returns(<<>>)
    ELSE LET before == CollectTreatments(items, i - 1)
             treatment == create_individual_treatment(items[i])
         IN  IF before.raised \/ treatment.raised THEN Raises
             ELSE Returns(before.value \o treatment.value)

create_product_item_KeepsEmpty(product_data) ==
    Caught(LET product_name == GetStripped(product_data.product_name)
               treatments ==
                   IF product_data.treatments.kind = "null" THEN Raises
                   ELSE CollectTreatments(product_data.treatments.items,
                                          Len(product_data.treatments.items))
           IN  IF product_name.raised THEN Raises
               ELSE IF product_name.value = <<>> THEN Returns(<<>>)
               ELSE IF treatments.raised THEN Raises
               ELSE IF ~product_data.fields_ok THEN Raises
               ELSE Returns(<<[product_name |-> product_name.value,
                               treatments |-> treatments.value]>>))

\* _create_product_item
create_product_item(product_data) ==
    Caught(LET product_name == GetStripped(product_data.product_name)
               treatments ==
                   IF product_data.treatments.kind = "null" THEN Raises
                   ELSE CollectTreatments(product_data.treatments.items,
                                          Len(product_data.treatments.items))
           IN  IF product_name.raised THEN Raises
               ELSE IF product_name.value = <<>> THEN Returns(<<>>)
               ELSE IF treatments.raised THEN Raises
               ELSE IF treatments.value = <<>> THEN Returns(<<>>)
               ELSE IF ~product_data.fields_ok THEN Raises
               ELSE Returns(<<[product_name |-> product_name.value,
                               treatments |-> treatments.value]>>))

ProductInit ==
    /\ prod_pc = "loop"
    /\ data_len \in 0..MaxProducts
    /\ product_idx = 0
    /\ current_data = <<>>
    /\ product_item = <<>>
    /\ parsed_products = <<>>

\* for product_data in data.get("products", []): the next dict is bound.
TakeProduct ==
    /\ prod_pc = "loop"
    /\ product_idx < data_len
    /\ \E pd \in ProductData : current_data' = <<pd>>
    /\ prod_pc' = "body"
    /\ UNCHANGED <<data_len, product_idx, product_item, parsed_products>>

\* The body of the loop: _create_product_item inside try/except-continue,
\* and products.append(product) when it returned a product.  The dict is
\* not read again.
HandleProduct ==
    /\ prod_pc = "body"
    /\ LET product == Caught(create_product_item(current_data[1]))
       IN  IF product.raised
           THEN /\ prod_pc' = "raised"
                /\ UNCHANGED <<product_item, parsed_products>>
           ELSE /\ prod_pc' = "loop"
                /\ product_item' = product.value
                /\ parsed_products' = parsed_products \o product.value
    /\ product_idx' = product_idx + 1
    /\ current_data' = <<>>
    /\ UNCHANGED data_len

\* return products
ReturnProducts ==
    /\ prod_pc = "loop"
    /\ product_idx = data_len
    /\ prod_pc' = "returned"
    /\ UNCHANGED <<data_len, product_idx, current_data, product_item,
                   parsed_products>>

ProductNext ==
    \/ TakeProduct /\ UNCHANGED <<extractVars, spaVars, crawlVars, renderVars, sitemapVars, sessionVars, mergeVars, priceVars, interactionVars, orderVars, parseVars, gatherVars, configVars>>
    \/ HandleProduct /\ UNCHANGED <<extractVars, spaVars, crawlVars, renderVars, sitemapVars, sessionVars, mergeVars, priceVars, interactionVars, orderVars, parseVars, gatherVars, configVars>>
    \/ ReturnProducts /\ UNCHANGED <<extractVars, spaVars, crawlVars, renderVars, sitemapVars, sessionVars, mergeVars, priceVars, interactionVars, orderVars, parseVars, gatherVars, configVars>>

InitProduct == ProductInit /\ ExtractIdle /\ SpaIdle /\ CrawlIdle /\ RenderIdle
        /\ SitemapIdle
        /\ SessionIdle
        /\ MergeIdle
        /\ PriceIdle
        /\ InteractionIdle
        /\ OrderIdle
        /\ ParseIdle
        /\ GatherIdle
        /\ ConfigIdle

SpecProduct == InitProduct /\ [][ProductNext]_vars

(***************************************************************************)
(* Sitemap discovery: _get_sitemap_urls, _parse_sitemap_content and        *)
(* _is_sitemap_url_relevant of SitemapScraper and of AsyncLLMWebCrawler.   *)
(*                                                                         *)
(* A URL is the sequence of its host and path segments, each followed by   *)
(* "/".  The patterns and keywords the code looks for are substrings; the  *)
(* ones a lower-cased segment brings into the URL are listed per segment.  *)
(***************************************************************************)
MaxSitemapUrls == 2

potential_sitemaps ==
    <<"/sitemap.xml", "/sitemap_index.xml", "/sitemaps.xml",
      "/sitemap/sitemap.xml", "/wp-sitemap.xml", "/sitemap-index.xml">>

SitemapOwners == {"SitemapScraper", "AsyncLLMWebCrawler"}

\* custom_settings of the xenia site config
XeniaSettings ==
    [exclude_patterns |-> {"/en/", "/blog/", "/news/"},
     priority_keywords |-> {"products", "treatment", "ko"}]

SitemapPool ==
    { <<"xenia.clinic", "ko", "products", "uuid">>,
      <<"xenia.clinic", "ko", "products", "uuid", "event">>,
      <<"xenia.clinic", "en", "treatment">>,
      <<"clinic.com", "Blog", "treatment">>,
      <<"clinic.com", "treatment">>,
      <<"clinic.com", "about">>,
      <<"xenia.clinic", "faq">> }

\* str.lower() of a segment
SegmentLower(seg) == IF seg = "Blog" THEN "blog" ELSE seg

\* url.lower()
UrlLower(url) == [i \in 1..Len(url) |-> SegmentLower(url[i])]

\* The patterns and keywords that occur in "/" + seg + "/" (the host
\* follows "//").
Substrings(seg) ==
    CASE seg = "blog" -> {"/blog/"}
      [] seg = "event" -> {"/event/"}
      [] seg = "en" -> {"/en/"}
      [] seg = "treatment" -> {"treatment"}
      [] seg = "products" -> {"products"}
      [] seg = "ko" -> {"ko"}
      [] seg = "about" -> {"/about"}
      [] seg = "clinic.com" -> {"/clinic"}
      [] OTHER -> {}

\* pattern in url_lower
InUrl(pattern, url_lower) ==
    \E i \in 1..Len(url_lower) : pattern \in Substrings(url_lower[i])

\* re.match(r".*xenia\.clinic/ko/products/[a-f0-9-]{36}.*", url_lower)
IsProductPage(url_lower) ==
    \E i \in 1..Len(url_lower) :
        /\ i + 3 <= Len(url_lower)
        /\ url_lower[i] = "xenia.clinic"
        /\ url_lower[i + 1] = "ko"
        /\ url_lower[i + 2] = "products"
        /\ url_lower[i + 3] = "uuid"

excluded_patterns ==
    {"/blog/", "/news/", "/notice/", "/event/", "/category/", "/tag/",
     "/author/", "/feed/", "/rss/", "/atom/", ".pdf", ".jpg", ".png", ".gif",
     ".css", ".js", "/admin/", "/login/", "/api/"}

relevant_keywords ==
    {"treatment", "service", "procedure", "menu", "price", "cost",
     "reservation", "booking", "consultation", "products"}

\* AsyncLLMWebCrawler only
main_patterns == {"/about", "/intro", "/center", "/clinic"}

\* _is_sitemap_url_relevant.  SitemapScraper reads the exclude_patterns and
\* priority_keywords of its config; AsyncLLMWebCrawler has no config and
\* accepts the main patterns.
is_sitemap_url_relevant(owner, settings, url) ==
    LET url_lower == UrlLower(url)
    IN  IF owner = "SitemapScraper"
           /\ \E pattern \in settings.exclude_patterns : InUrl(pattern, url_lower)
        THEN FALSE
        ELSE IF IsProductPage(url_lower) THEN TRUE
        ELSE IF \E pattern \in excluded_patterns : InUrl(pattern, url_lower)
             THEN FALSE
        ELSE IF owner = "SitemapScraper"
                /\ \E keyword \in settings.priority_keywords : InUrl(keyword, url_lower)
             THEN TRUE
        ELSE IF \E keyword \in relevant_keywords : InUrl(keyword, url_lower)
             THEN TRUE
        ELSE owner = "AsyncLLMWebCrawler"
                /\ \E pattern \in main_patterns : InUrl(pattern, url_lower)

\* What session.get(sitemap_url) and the reading of the body do.
GetRaised == [status |-> 0, body |-> "none"]
NotFound == [status |-> 404, body |-> "none"]
BodyError == [status |-> 200, body |-> "raised"]
BodyRead == [status |-> 200, body |-> "read"]
SitemapAnswers == {GetRaised, NotFound, BodyError, BodyRead}

UrlSets(n) == {U \in SUBSET SitemapPool : Cardinality(U) <= n}

\* A sitemap document: the URLs of its <url> tags, and for each <sitemap>
\* tag whether the referenced document could be fetched and what it lists.
SubSitemaps ==
    {[fetched |-> FALSE, locs |-> {}]}
        \cup {[fetched |-> TRUE, locs |-> {url}] : url \in SitemapPool}

SitemapContents ==
    [locs : UrlSets(MaxSitemapUrls),
     sitemaps : {{}} \cup {{sub} : sub \in SubSitemaps}]

\* _parse_sitemap_content: the relevant URLs of the referenced sitemaps that
\* could be fetched and of the document itself.
parse_sitemap_content(owner, settings, content) ==
    {url \in content.locs \cup UNION {sub.locs : sub \in content.sitemaps} :
        is_sitemap_url_relevant(owner, settings, url)}

SitemapInit ==
    /\ sm_owner \in SitemapOwners
    /\ sm_pc = "probe"
    /\ sm_idx = 1
    /\ sm_settings \in IF sm_owner = "SitemapScraper"
                       THEN {NoSettings, XeniaSettings}
                       ELSE {NoSettings}
    /\ sm_requested = <<>>
    /\ sm_answers = <<>>
    /\ sitemap_urls = {}

StopsProbing_WhenUrlsFound(answer, parsed_urls) == answer = BodyRead /\ parsed_urls # {}

\* The break of the loop: the path answered 200 and its body was read and
\* parsed (the parser catches its own exceptions).
StopsProbing(answer, parsed_urls) == answer = BodyRead

\* One iteration of the loop over potential_sitemaps.
ProbePath ==
    /\ sm_pc = "probe"
    /\ sm_idx <= Len(potential_sitemaps)
    /\ \E answer \in SitemapAnswers :
          \E content \in IF answer = BodyRead
                         THEN SitemapContents
                         ELSE {[locs |-> {}, sitemaps |-> {}]} :
             LET parsed_urls ==
                     IF answer = BodyRead
                     THEN parse_sitemap_content(sm_owner, sm_settings, content)
                     ELSE {}
             IN  /\ sm_requested' = Append(sm_requested, potential_sitemaps[sm_idx])
                 /\ sm_answers' = Append(sm_answers, answer)
                 /\ sitemap_urls' = sitemap_urls \cup parsed_urls
                 /\ IF StopsProbing(answer, parsed_urls)
                    THEN sm_pc' = "break" /\ UNCHANGED sm_idx
                    ELSE sm_idx' = sm_idx + 1 /\ UNCHANGED sm_pc
    /\ UNCHANGED <<sm_owner, sm_settings>>

\* return sitemap_urls[:100]
ReturnSitemapUrls ==
    /\ \/ sm_pc = "break"
       \/ sm_pc = "probe" /\ sm_idx > Len(potential_sitemaps)
    /\ sm_pc' = "returned"
    /\ UNCHANGED <<sm_owner, sm_idx, sm_settings, sm_requested, sm_answers,
                   sitemap_urls>>

SitemapNext ==
    \/ ProbePath /\ UNCHANGED <<extractVars, spaVars, crawlVars, renderVars, productVars, sessionVars, mergeVars, priceVars, interactionVars, orderVars, parseVars, gatherVars, configVars>>
    \/ ReturnSitemapUrls /\ UNCHANGED <<extractVars, spaVars, crawlVars, renderVars, productVars, sessionVars, mergeVars, priceVars, interactionVars, orderVars, parseVars, gatherVars, configVars>>

InitSitemap ==
    SitemapInit /\ ExtractIdle /\ SpaIdle /\ CrawlIdle /\ RenderIdle /\ ProductIdle
        /\ SessionIdle
        /\ MergeIdle
        /\ PriceIdle
        /\ InteractionIdle
        /\ OrderIdle
        /\ ParseIdle
        /\ GatherIdle
        /\ ConfigIdle

SpecSitemap == InitSitemap /\ [][SitemapNext]_vars

(***************************************************************************)
(* The order and the number of the URLs a sitemap resolves to              *)
(* (SitemapScraper).                                                       *)
(*                                                                         *)
(* A document lists a run of URLs that differ in their last part only      *)
(* (the pages of one kind), and references other documents.                *)
(***************************************************************************)
MaxSubs == 2
BigRun == 60

\* return sitemap_urls[:100]
sitemap_url_cap == 100
\* limited_urls = urls[:50]
scrape_url_cap == 50

\* The kinds of page: a product page, a treatment page, and the treatment
\* index, whose URL ends with "/".
PageKinds ==
    { <<"xenia.clinic", "ko", "products", "uuid">>,
      <<"clinic.com", "treatment">>,
      <<"clinic.com", "treatment", "">> }

NoRun == [kind |-> <<>>, count |-> 0]
Runs == {NoRun} \cup [kind : PageKinds, count : {1, BigRun}]

\* The <loc> texts of the <url> tags of a document.
LocsOf(run) == [n \in 1..run.count |-> [kind |-> run.kind, n |-> n]]

Unfetched == [fetched |-> FALSE, run |-> NoRun]
SubDocuments == {Unfetched} \cup [fetched : {TRUE}, run : Runs]
SitemapDocuments == [subs : SeqsUpTo(SubDocuments, MaxSubs), run : Runs]

treatment_keywords == {"treatment", "procedure", "service"}
product_keywords == {"products", "menu", "price"}
booking_keywords == {"reservation", "booking", "consultation"}

\* The sum of points over the keywords of K that occur in the URL.
KeywordPoints(K, url_lower, points) ==
    points * Cardinality({keyword \in K : InUrl(keyword, url_lower)})

\* url_lower.endswith("/")
EndsWithSlash(url_lower) == url_lower[Len(url_lower)] = ""

\* _get_sitemap_url_priority
get_sitemap_url_priority(settings, url) ==
    LET url_lower == UrlLower(url.kind)
    IN  (IF IsProductPage(url_lower) THEN 50 ELSE 0)
        + KeywordPoints(settings.priority_keywords, url_lower, 20)
        + KeywordPoints(treatment_keywords, url_lower, 15)
        + KeywordPoints(product_keywords, url_lower, 10)
        + KeywordPoints(booking_keywords, url_lower, 8)
        - (IF EndsWithSlash(url_lower) THEN 5 ELSE 0)

\* The priority and the relevance of the URLs of every kind of page: they
\* depend on the text of the URL before its last part only.
url_priority ==
    [settings \in {NoSettings, XeniaSettings}, kind \in PageKinds |->
        get_sitemap_url_priority(settings, [kind |-> kind, n |-> 1])]
url_relevant ==
    [settings \in {NoSettings, XeniaSettings}, kind \in PageKinds |->
        is_sitemap_url_relevant("SitemapScraper", settings, kind)]

RECURSIVE TakeByPriority(_, _, _)
\* The URLs of urls by falling priority; URLs of equal priority keep their
\* order.
TakeByPriority(settings, urls, levels) ==
    IF levels = {} THEN <<>>
    ELSE LET top == CHOOSE p \in levels : \A q \in levels : q <= p
             has_top(url) == url_priority[settings, url.kind] = top
         IN  SelectSeq(urls, has_top) \o TakeByPriority(settings, urls, levels \ {top})

sort_by_priority_Unsorted(settings, urls) == urls

\* urls.sort(key=lambda url: self._get_sitemap_url_priority(url), reverse=True)
sort_by_priority(settings, urls) ==
    TakeByPriority(settings, urls,
        {url_priority[settings, urls[i].kind] : i \in 1..Len(urls)})

\* The relevant URLs of the <url> tags of a document, in document order.
RelevantLocs(settings, run) ==
    LET relevant(url) == url_relevant[settings, url.kind]
    IN  SelectSeq(LocsOf(run), relevant)

\* _parse_sitemap_content of a document without <sitemap> tags.
parse_leaf(settings, run) == sort_by_priority(settings, RelevantLocs(settings, run))

RECURSIVE ExtendWithSubs(_, _, _, _)
\* The loop over the <sitemap> tags: urls.extend(sub_urls) for every
\* referenced document that could be fetched.
ExtendWithSubs(settings, urls, subs, i) ==
    IF i > Len(subs) THEN urls
    ELSE IF subs[i].fetched
         THEN ExtendWithSubs(settings, urls \o parse_leaf(settings, subs[i].run), subs, i + 1)
         ELSE ExtendWithSubs(settings, urls, subs, i + 1)

\* _parse_sitemap_content of the document found by _get_sitemap_urls.
parse_document(settings, doc) ==
    sort_by_priority(settings,
        ExtendWithSubs(settings, <<>>, doc.subs, 1) \o RelevantLocs(settings, doc.run))

\* list[:n]
Prefix(list, n) == SubSeq(list, 1, Min(n, Len(list)))

OrderInit ==
    /\ order_pc = "resolve"
    /\ order_settings \in {NoSettings, XeniaSettings}
    /\ sitemap_doc \in SitemapDocuments
    /\ resolved_urls = <<>>
    /\ limited_urls = <<>>

\* _get_sitemap_urls, for the path that answered: parse, extend, cut.
ResolveSitemap ==
    /\ order_pc = "resolve"
    /\ resolved_urls' = Prefix(parse_document(order_settings, sitemap_doc), sitemap_url_cap)
    /\ order_pc' = "limit"
    /\ UNCHANGED <<order_settings, sitemap_doc, limited_urls>>

\* scrape_sitemap_content: the URLs it goes on to scrape.
LimitUrls ==
    /\ order_pc = "limit"
    /\ limited_urls' = Prefix(resolved_urls, scrape_url_cap)
    /\ order_pc' = "done"
    /\ UNCHANGED <<order_settings, sitemap_doc, resolved_urls>>

OrderNext ==
    \/ ResolveSitemap /\ UNCHANGED <<extractVars, spaVars, crawlVars, renderVars, productVars, sitemapVars, sessionVars, mergeVars, priceVars, interactionVars, parseVars, gatherVars, configVars>>
    \/ LimitUrls /\ UNCHANGED <<extractVars, spaVars, crawlVars, renderVars, productVars, sitemapVars, sessionVars, mergeVars, priceVars, interactionVars, parseVars, gatherVars, configVars>>

InitOrder ==
    OrderInit /\ ExtractIdle /\ SpaIdle /\ CrawlIdle /\ RenderIdle /\ ProductIdle
        /\ SitemapIdle /\ SessionIdle /\ MergeIdle /\ PriceIdle /\ InteractionIdle
        /\ ParseIdle
        /\ GatherIdle
        /\ ConfigIdle

SpecOrder == InitOrder /\ [][OrderNext]_vars

(***************************************************************************)
(* The recursion of _parse_sitemap_content over the <sitemap> tags         *)
(* (SitemapScraper and AsyncLLMWebCrawler have the same code).             *)
(*                                                                         *)
(* A document is the set of documents its <sitemap> tags reference, taken  *)
(* in the order of their numbers; the <url> tags play no part in the       *)
(* recursion.  Missing is a reference whose GET raises or does not answer  *)
(* 200.                                                                    *)
(***************************************************************************)
NumDocs == 2
DocIds == 1..NumDocs
Missing == 0

\* The calls the model keeps: one more than there are documents, so that a
\* chain of calls over different documents is kept whole.
MaxDepth == NumDocs + 1

\* The call for a document, at its first <sitemap> tag.
Call(doc, refs) == [doc |-> doc, pending |-> refs]

\* for sitemap_tag in sitemap_tags: the tag the loop of the innermost call
\* is at.
CurrentTag(stack) ==
    LET pending == stack[Len(stack)].pending
    IN  CHOOSE ref \in pending : \A other \in pending : ref <= other

\* The innermost call moves on to its next tag.
NextTag(stack) ==
    [stack EXCEPT ![Len(stack)].pending = @ \ {CurrentTag(stack)}]

\* The calls after a recursive call was made.  The code puts no bound on
\* the depth; the model keeps the MaxDepth innermost calls.
Nested(stack, call) ==
    IF Len(stack) < MaxDepth THEN Append(stack, call) ELSE Append(Tail(stack), call)

ParseInit ==
    /\ parse_pc = "parsing"
    /\ documents \in [DocIds -> SUBSET (DocIds \cup {Missing})]
    /\ call_stack = <<Call(1, documents[1])>>
    /\ outer_calls = FALSE

\* The GET of the tag's <loc> answers 200: the call for its content is
\* awaited.
ParseSubSitemap ==
    /\ parse_pc = "parsing"
    /\ call_stack[Len(call_stack)].pending # {}
    /\ CurrentTag(call_stack) # Missing
    /\ call_stack' = Nested(NextTag(call_stack),
                            Call(CurrentTag(call_stack), documents[CurrentTag(call_stack)]))
    /\ outer_calls' = IF Len(call_stack) < MaxDepth THEN outer_calls ELSE ~outer_calls
    /\ UNCHANGED <<parse_pc, documents>>

\* The GET raises or does not answer 200: the loop goes on.
SkipSubSitemap ==
    /\ parse_pc = "parsing"
    /\ call_stack[Len(call_stack)].pending # {}
    /\ CurrentTag(call_stack) = Missing
    /\ call_stack' = NextTag(call_stack)
    /\ UNCHANGED <<parse_pc, documents, outer_calls>>

\* The loop over the <sitemap> tags is over: the <url> tags are read, the
\* list is sorted and returned to the call that awaits it.
ReturnUrls ==
    /\ parse_pc = "parsing"
    /\ call_stack[Len(call_stack)].pending = {}
    /\ call_stack' = SubSeq(call_stack, 1, Len(call_stack) - 1)
    /\ parse_pc' = IF Len(call_stack) = 1 THEN "returned" ELSE "parsing"
    /\ UNCHANGED <<documents, outer_calls>>

ParseNext ==
    \/ ParseSubSitemap /\ UNCHANGED <<extractVars, spaVars, crawlVars, renderVars, productVars, sitemapVars, sessionVars, mergeVars, priceVars, interactionVars, orderVars, gatherVars, configVars>>
    \/ SkipSubSitemap /\ UNCHANGED <<extractVars, spaVars, crawlVars, renderVars, productVars, sitemapVars, sessionVars, mergeVars, priceVars, interactionVars, orderVars, gatherVars, configVars>>
    \/ ReturnUrls /\ UNCHANGED <<extractVars, spaVars, crawlVars, renderVars, productVars, sitemapVars, sessionVars, mergeVars, priceVars, interactionVars, orderVars, gatherVars, configVars>>

InitParse ==
    ParseInit /\ ExtractIdle /\ SpaIdle /\ CrawlIdle /\ RenderIdle /\ ProductIdle
        /\ SitemapIdle /\ SessionIdle /\ MergeIdle /\ PriceIdle /\ InteractionIdle
        /\ OrderIdle
        /\ GatherIdle
        /\ ConfigIdle

\* The coroutine goes on whenever it can: every GET ends.
ParseFairness == WF_vars(ParseNext)

SpecParse == InitParse /\ [][ParseNext]_vars /\ ParseFairness

(***************************************************************************)
(* Merging the product lists of several pages:                             *)
(* AsyncLLMTreatmentScraper.scrape_all_treatments, and the static-URL and  *)
(* sitemap strategies of ConfigurableScraper.scrape_by_config.             *)
(***************************************************************************)
MaxResults == 2
MaxPerPage == 2

MergeOwners == {"scrape_all_treatments", "static_urls", "sitemap"}

\* The (clinic_name, product_name) pairs the pages can show.
PagePairs == { <<"ClinicA", "Botox">>, <<"ClinicB", "Botox">>, <<"ClinicA", "Filler">> }

\* What one page gave.  A page whose processing failed carries no product
\* and the default llm_processing_time 0.0; a processed page carries the
\* time its extraction took, which is positive.
FailedPage == [status_code |-> 0, pairs |-> <<>>, llm_processing_time |-> 0]
ProcessedPages ==
    { [status_code |-> 200, pairs |-> ps, llm_processing_time |-> 1] :
          ps \in SeqsUpTo(PagePairs, MaxPerPage) }
PageResults == SeqsUpTo({FailedPage} \cup ProcessedPages, MaxResults)

\* result.products of the i-th result: ProductItems that remember where
\* they were found.
ProductsOf(res, i) ==
    [j \in 1..Len(res[i].pairs) |->
        [clinic_name |-> res[i].pairs[j][1], product_name |-> res[i].pairs[j][2],
         origin |-> <<i, j>>]]

RECURSIVE ExtendAll(_, _, _)
\* for result in results: all_products.extend(result.products)
ExtendAll(acc, res, i) ==
    IF i > Len(res) THEN acc
    ELSE ExtendAll(acc \o ProductsOf(res, i), res, i + 1)

seen_key_NameOnly(product) == <<product.product_name>>

\* key = (product.clinic_name, product.product_name)
seen_key(product) == <<product.clinic_name, product.product_name>>

RECURSIVE RemoveDuplicates(_, _, _, _)
\* The loop over all_products that fills unique_products and seen.
RemoveDuplicates(products, i, unique, seen) ==
    IF i > Len(products) THEN unique
    ELSE LET key == seen_key(products[i])
         IN  IF key \notin seen
             THEN RemoveDuplicates(products, i + 1, Append(unique, products[i]),
                                   seen \cup {key})
             ELSE RemoveDuplicates(products, i + 1, unique, seen)

\* The number of results the average LLM time is taken over.
TimedResults(res) == Cardinality({i \in 1..Len(res) : res[i].llm_processing_time # 0})

\* avg_llm_time divides by the number of timed results whenever
\* crawl_results is not empty.
StatisticsRaise(res) == res # <<>> /\ TimedResults(res) = 0

MergeInit ==
    /\ merge_owner \in MergeOwners
    /\ merge_pc = "collect"
    /\ page_results \in PageResults
    /\ collected_products = <<>>
    /\ unique_products = <<>>
    /\ merge_ret = <<>>

\* The loop that gathers the products of all results into all_products.
CollectProducts ==
    /\ merge_pc = "collect"
    /\ collected_products' = ExtendAll(<<>>, page_results, 1)
    /\ merge_pc' = IF merge_owner = "scrape_all_treatments" THEN "dedup" ELSE "return"
    /\ UNCHANGED <<merge_owner, page_results, unique_products, merge_ret>>

\* scrape_all_treatments: the duplicate removal.
DedupProducts ==
    /\ merge_owner = "scrape_all_treatments"
    /\ merge_pc = "dedup"
    /\ unique_products' = RemoveDuplicates(collected_products, 1, <<>>, {})
    /\ merge_pc' = "statistics"
    /\ UNCHANGED <<merge_owner, page_results, collected_products, merge_ret>>

\* scrape_all_treatments: the statistics and the return; an exception of
\* the statistics is caught by the function's except branch, which returns
\* the empty list.
ReportAndReturn ==
    /\ merge_owner = "scrape_all_treatments"
    /\ merge_pc = "statistics"
    /\ merge_ret' = IF StatisticsRaise(page_results) THEN <<>> ELSE unique_products
    /\ merge_pc' = "returned"
    /\ UNCHANGED <<merge_owner, page_results, collected_products, unique_products>>

\* scrape_by_config, static URLs and sitemap: all_products is returned.
ReturnAllProducts ==
    /\ merge_owner \in {"static_urls", "sitemap"}
    /\ merge_pc = "return"
    /\ merge_ret' = collected_products
    /\ merge_pc' = "returned"
    /\ UNCHANGED <<merge_owner, page_results, collected_products, unique_products>>

MergeNext ==
    \/ CollectProducts /\ UNCHANGED <<extractVars, spaVars, crawlVars, renderVars, productVars, sitemapVars, sessionVars, priceVars, interactionVars, orderVars, parseVars, gatherVars, configVars>>
    \/ DedupProducts /\ UNCHANGED <<extractVars, spaVars, crawlVars, renderVars, productVars, sitemapVars, sessionVars, priceVars, interactionVars, orderVars, parseVars, gatherVars, configVars>>
    \/ ReportAndReturn /\ UNCHANGED <<extractVars, spaVars, crawlVars, renderVars, productVars, sitemapVars, sessionVars, priceVars, interactionVars, orderVars, parseVars, gatherVars, configVars>>
    \/ ReturnAllProducts /\ UNCHANGED <<extractVars, spaVars, crawlVars, renderVars, productVars, sitemapVars, sessionVars, priceVars, interactionVars, orderVars, parseVars, gatherVars, configVars>>

InitMerge ==
    MergeInit /\ ExtractIdle /\ SpaIdle /\ CrawlIdle /\ RenderIdle /\ ProductIdle
        /\ SitemapIdle /\ SessionIdle
        /\ PriceIdle
        /\ InteractionIdle
        /\ OrderIdle
        /\ ParseIdle
        /\ GatherIdle
        /\ ConfigIdle

SpecMerge == InitMerge /\ [][MergeNext]_vars

(***************************************************************************)
(* _parse_price_value, applied to product_original_price and               *)
(* product_event_price of a product dict.                                  *)
(***************************************************************************)
MaxPrice == 3
MaxPriceLen == 3

\* The characters of a price string: two digits, a separator and a letter.
PriceChars == {"0", "1", ",", "w"}

IsDigit(ch) == ch \in {"0", "1"}
DigitValue(ch) == IF ch = "1" THEN 1 ELSE 0

\* product_data.get(field): None when the field is absent or null, a number
\* or a string.
NoPrice == [kind |-> "none", n |-> 0, chars |-> <<>>]
PriceNumber(n) == [kind |-> "number", n |-> n, chars |-> <<>>]
PriceString(chars) == [kind |-> "str", n |-> 0, chars |-> chars]
PriceValues ==
    {NoPrice} \cup {PriceNumber(n) : n \in 0..MaxPrice}
              \cup {PriceString(chars) : chars \in SeqsUpTo(PriceChars, MaxPriceLen)}

\* re.sub(r"[^\d]", "", price_value)
KeepDigits(chars) == SelectSeq(chars, IsDigit)

RECURSIVE DecimalValue(_, _, _)
\* float(price_str) of a string of digits.
DecimalValue(digits, i, acc) ==
    IF i > Len(digits) THEN acc
    ELSE DecimalValue(digits, i + 1, 10 * acc + DigitValue(digits[i]))

\* _parse_price_value: <<>> for None, <<n>> for the float n.
parse_price_value(v) ==
    IF v.kind = "none" THEN <<>>
    ELSE IF v.kind = "str"
         THEN LET price_str == KeepDigits(v.chars)
              IN  IF price_str # <<>> THEN <<DecimalValue(price_str, 1, 0)>> ELSE <<>>
         ELSE IF v.n # 0 THEN <<v.n>> ELSE <<>>

PriceInit ==
    /\ price_pc = "called"
    /\ price_value \in PriceValues
    /\ price_ret = <<>>

ParsePrice ==
    /\ price_pc = "called"
    /\ price_ret' = parse_price_value(price_value)
    /\ price_pc' = "returned"
    /\ UNCHANGED price_value

PriceNext ==
    \/ ParsePrice /\ UNCHANGED <<extractVars, spaVars, crawlVars, renderVars, productVars, sitemapVars, sessionVars, mergeVars, interactionVars, orderVars, parseVars, gatherVars, configVars>>

InitPrice ==
    PriceInit /\ ExtractIdle /\ SpaIdle /\ CrawlIdle /\ RenderIdle /\ ProductIdle
        /\ SitemapIdle /\ SessionIdle /\ MergeIdle
        /\ InteractionIdle
        /\ OrderIdle
        /\ ParseIdle
        /\ GatherIdle
        /\ ConfigIdle

SpecPrice == InitPrice /\ [][PriceNext]_vars

(***************************************************************************)
(* Properties of the extraction client.                                    *)
(***************************************************************************)

\* The messages of ErrorMessages that signal rate limiting: they hold "429",
\* or "quota" or "exceeded" in some letter case.
RateLimitMessages == { <<"HTTP", "429">>, <<"Resource", "EXCEEDED">>, <<"Quota", "limit">> }

\* C1: a rate-limited provider error is retried with exponential backoff.
\* An extract call invokes the provider at most 3 times, the wait before
\* re-attempt k+1 is 30*2^k seconds (k = 0, 1), a rate-limited failure of
\* the first or second attempt is followed by that wait and a re-attempt,
\* and after the third rate-limited failure the call has returned an empty
\* list with no third wait.
C1_RetryBackoff ==
    \A t \in Tasks :
        /\ calls[t] <= 3
        /\ Len(sleeps[t]) <= 2
        /\ \A k \in 1..Len(sleeps[t]) : sleeps[t][k] = 30 * (2 ^ (k - 1))
        /\ tpc[t] = "backoff" => error_msg[t] \in RateLimitMessages
        /\ error_msg[t] \in RateLimitMessages =>
              IF calls[t] < 3
              THEN /\ tpc[t] \in {"backoff", "attempt"}
                   /\ Len(sleeps[t]) = calls[t]
                   /\ ret[t] = "none"
              ELSE /\ tpc[t] = "done"
                   /\ ret[t] = "empty"
                   /\ sleeps[t] = <<30, 60>>

C1_Witness ==
    \E t \in Tasks :
        /\ calls[t] = 3
        /\ error_msg[t] = <<"Quota", "limit">>
        /\ tpc[t] = "done"
        /\ ret[t] = "empty"
        /\ sleeps[t] = <<30, 60>>

\* C2: once an attempt of an extract call has failed with an error that does
\* not signal rate limiting, that call has returned an empty list without a
\* backoff sleep for this failure, and it invokes the provider and sleeps no
\* more, whether or not earlier attempts were rate-limited and retried.
C2_NonRetryableAborts ==
    [][\A t \in Tasks :
          (error_msg[t] # NoError /\ error_msg[t] \notin RateLimitMessages) =>
              /\ tpc[t] = "done" /\ ret[t] = "empty"
              /\ Len(sleeps[t]) = calls[t] - 1
              /\ tpc'[t] = "done" /\ ret'[t] = "empty"
              /\ calls'[t] = calls[t] /\ sleeps'[t] = sleeps[t]]_vars

C2_Witness ==
    \E t \in Tasks :
        /\ error_msg[t] = <<"connection", "timeout">>
        /\ calls[t] = 2
        /\ sleeps[t] = <<30>>
        /\ tpc[t] = "done"
        /\ ret[t] = "empty"

\* C3: any two consecutive provider invocations of one provider start at
\* least 60/requests_per_minute seconds apart, whichever calls make them.
C3_MinInterRequestDelay ==
    last_gap # NoTime => last_gap * RequestsPerMinute >= 60

C3_Witness ==
    /\ last_gap * RequestsPerMinute = 60
    /\ \E t, u \in Tasks : t # u /\ calls[t] >= 2 /\ calls[u] >= 1
    /\ \E t \in Tasks : tpc[t] = "inflight" /\ attempt[t] >= 1

(***************************************************************************)
(* Properties of the SPA scrapers.                                         *)
(***************************************************************************)

\* The keys of a product sequence are pairwise distinct.
DistinctKeys(products) ==
    \A i, j \in 1..Len(products) : i # j => Key(products[i]) # Key(products[j])

\* C4: the product list UnifiedSPAContentScraper.scrape_spa_content returns
\* never holds two products with the same (clinic_name, product_name) pair.
C4_NoDuplicatePairs ==
    (scraper = "unified" /\ spa_result.returned) => DistinctKeys(spa_result.products)

\* C5: when UnifiedSPAContentScraper has folded the extraction results, every
\* (clinic_name, product_name) pair some result held is among the
\* accumulated products: a product is dropped only for a product with the
\* same clinic name and the same product name.
C5_NewKeysKept ==
    (scraper = "unified" /\ spa_pc = "done" /\ spa_result.error = "none") =>
        \A i \in 1..Len(results) : \A p \in Range(results[i]) :
            \E q \in Range(all_products) : Key(q) = Key(p)

\* C7: once the driver reported that no interaction is possible, or the
\* captured content's fingerprint was one already recorded, the interaction
\* loop of UnifiedSPAContentScraper is over: no snapshot is collected, no
\* element is chosen or clicked and no interaction is counted any more.
C7_LoopEndsAtRefusalOrRepeat ==
    [][ (scraper = "unified" /\ (duplicate_seen \/ driver_refused)) =>
            /\ spa_pc \in {"collected", "gather", "done"}
            /\ UNCHANGED <<collected_htmls, content_states, interactions_performed,
                           interaction_num, interacted_elements, clicked_element,
                           clicked_signatures, methods_tried>> ]_vars

\* The driver refused after an interaction had been performed, and the
\* scrape returned its result.
C7_Witness ==
    /\ scraper = "unified"
    /\ driver_refused
    /\ interactions_performed >= 1
    /\ spa_pc = "done"
    /\ spa_result.error = "none"

\* C8: within one session no fingerprint is passed to LLM extraction twice:
\* the fingerprints of the snapshots UnifiedSPAContentScraper collected are
\* pairwise distinct, and every content SPAContentScraper extracted had a
\* fingerprint that was new to the seen set.
C8_FingerprintExtractedOnce ==
    /\ \A i, j \in 1..Len(llm_inputs) : i # j => llm_inputs[i] # llm_inputs[j]
    /\ scraper = "unified" =>
          /\ Len(content_states) = Len(collected_htmls)
          /\ \A i \in 1..Len(collected_htmls) :
                content_states[i] = ContentHash(collected_htmls[i])
          /\ \A i, j \in 1..Len(content_states) :
                i # j => content_states[i] # content_states[j]
    /\ scraper = "legacy" => Range(llm_inputs) \subseteq seen_content_hashes

\* SPAContentScraper clicked three times, met a content it had seen, and
\* extracted two contents in all.
C8_Witness ==
    /\ scraper = "legacy"
    /\ duplicate_seen
    /\ interactions_performed = 3
    /\ Len(llm_inputs) = 2

\* C9: UnifiedSPAContentScraper collects at most max_interactions snapshots
\* and performs at most max_interactions - 1 interactions; SPAContentScraper
\* performs at most max_interactions clicks.
C9_InteractionsBounded ==
    /\ interactions_performed <= max_interactions
    /\ scraper = "unified" =>
          /\ Len(collected_htmls) <= max_interactions
          /\ interactions_performed <= max_interactions - 1
    /\ spa_result.returned => spa_result.interactions_performed <= max_interactions

\* UnifiedSPAContentScraper used its whole budget: three snapshots and two
\* interactions with max_interactions = 3.
C9_Witness ==
    /\ scraper = "unified"
    /\ max_interactions = 3
    /\ Len(collected_htmls) = 3
    /\ interactions_performed = 2
    /\ spa_pc = "done"

\* C10: interacted_elements changes only by the signature of the chosen
\* element, and only after one of the click methods succeeded on it; when
\* the last click method failed the set stays as it is and the element is
\* still available.
C10_RecordedOnlyOnSuccess ==
    [][ scraper = "unified" =>
            /\ interacted_elements' # interacted_elements =>
                  /\ spa_pc = "clicked"
                  /\ click_success
                  /\ interacted_elements' =
                        interacted_elements \cup {element_signature}
            /\ (spa_pc = "click" /\ methods_tried' = NumClickMethods /\ ~click_success') =>
                  /\ interacted_elements' = interacted_elements
                  /\ Signature(clicked_element) \notin interacted_elements =>
                        clicked_element \in Available(Elements, interacted_elements') ]_vars

\* Every click method failed on the chosen element, whose signature is not
\* recorded, after an earlier interaction of the session was recorded.
C10_Witness ==
    /\ scraper = "unified"
    /\ spa_pc = "select"
    /\ clicked_element # "none"
    /\ methods_tried = NumClickMethods
    /\ ~click_success
    /\ interacted_elements # {}
    /\ Signature(clicked_element) \notin interacted_elements

\* C11: a click is attempted only on an element whose computed signature is
\* not in interacted_elements, and over the calls of a session no signature
\* is clicked successfully twice.
C11_EachSignatureClickedOnce ==
    /\ []((scraper = "unified" /\ spa_pc \in {"click", "clicked"}) =>
            element_signature \notin interacted_elements)
    /\ [][ (scraper = "unified" /\ spa_pc = "click" /\ click_success') =>
              element_signature \notin clicked_signatures ]_vars

\* C12: _perform_interaction returns False only after the scroll fallback
\* was attempted in that call (and failed).
C12_RefusalOnlyAfterFailedScroll ==
    (scraper = "unified" /\ driver_refused) => scroll_attempted

\* The positions of scrape_spa_content inside a call of _perform_interaction.
InCall == {"select", "click", "clicked"}

\* How far a call of _perform_interaction has got with its selector.
Stage(pc, tried) == IF pc = "select" THEN 0 ELSE IF pc = "click" THEN 1 + tried ELSE 5

\* C13: an exception raised by a click or by the enumeration of a selector
\* never leaves _perform_interaction: every step of a call stays in the call
\* or returns True or False, a click that failed with every method moves on
\* to the next selector, and every step takes the call forward, so that it
\* ends.
C13_ClickErrorsNeverPropagate ==
    [][ (scraper = "unified" /\ spa_pc \in InCall) =>
            /\ spa_pc' \in InCall \cup {"loop", "collected"}
            /\ ~spa_result'.returned
            /\ spa_pc' = "collected" <=> (driver_refused' /\ ~driver_refused)
            /\ (spa_pc = "click" /\ methods_tried' = NumClickMethods /\ ~click_success') =>
                  (spa_pc' = "select" /\ selector_idx' = selector_idx + 1)
            /\ spa_pc' \in InCall =>
                  \/ selector_idx' > selector_idx
                  \/ /\ selector_idx' = selector_idx
                     /\ Stage(spa_pc', methods_tried') > Stage(spa_pc, methods_tried) ]_vars

\* A call returned False without trying to scroll: it had chosen an element
\* and the click on it failed.
C13_Witness ==
    /\ scraper = "unified"
    /\ spa_pc = "collected"
    /\ driver_refused
    /\ ~scroll_attempted
    /\ interactions_performed = 1

\* C16: LLM extraction starts only when the interaction loop is over (by a
\* repeated fingerprint, a refusal of the driver or the last pass), all the
\* collected snapshots are dispatched together, and from then on nothing is
\* collected, chosen, clicked or counted on the page.
C16_ExtractionAfterInteraction ==
    /\ [](scraper = "unified" =>
            /\ spa_pc \in InCall \cup {"loop", "collected"} =>
                  (llm_inputs = <<>> /\ results = <<>>)
            /\ llm_inputs # <<>> =>
                  /\ Len(llm_inputs) = Len(collected_htmls)
                  /\ \/ duplicate_seen
                     \/ driver_refused
                     \/ Len(collected_htmls) = max_interactions)
    /\ [][ (scraper = "unified" /\ llm_inputs # <<>>) =>
              UNCHANGED <<collected_htmls, content_states, interactions_performed,
                          interaction_num, interacted_elements, clicked_element,
                          clicked_signatures, methods_tried, scroll_attempted>> ]_vars

\* Two extraction tasks of three have ended, after two interactions.
C16_Witness ==
    /\ scraper = "unified"
    /\ spa_pc = "gather"
    /\ interactions_performed = 2
    /\ Len(results) = 3
    /\ results[1] = Pending
    /\ results[2] # Pending
    /\ results[3] # Pending

(***************************************************************************)
(* Properties of the crawler.                                              *)
(***************************************************************************)

\* C6: crawl_and_extract never marks as visited and dispatches more than
\* max_pages URLs in one run.
C6_VisitedWithinMaxPages == Cardinality(visited_urls) <= max_pages

\* C14: a fetch-and-extract that fails or times out returns an LLMCrawlResult
\* for its URL with the error, no product and the elapsed time; every URL
\* of a batch has its result when the batch is over, whatever happened to
\* the others, and the crawl goes on with the frontier that is left.
C14_FetchNeverRaises ==
    /\ [](/\ (\A r \in crawl_results :
                  /\ r.kind = "LLMCrawlResult"
                  /\ r.processing_time = "elapsed"
                  /\ r.status_code # 200 =>
                        (r.products = <<>> /\ r.error \in {"Timeout", "str(e)"}))
           /\ crawl_pc \in {"loop", "done"} =>
                  (\A u \in visited_urls : \E q \in crawl_results : q.url = u))
    /\ [][ (crawl_pc = "batch" /\ crawl_pc' = "done") => urls_to_visit' = {} ]_vars

\* One URL timed out, another of the same batch was extracted, and a URL of
\* a later batch was processed as well.
C14_Witness ==
    /\ crawl_pc = "done"
    /\ max_concurrent = 2
    /\ Cardinality(crawl_results) = 4
    /\ \E r1, r2 \in crawl_results :
          /\ {r1.url, r2.url} = {1, 2}
          /\ r1.error = "Timeout"
          /\ r2.status_code = 200

\* C15: never more than max_concurrent fetch-and-extract units are in
\* flight, only URLs of the current batch are, and a batch is formed only
\* when no unit of the batch before is in flight or unfinished.
C15_BoundedConcurrency ==
    /\ [](/\ Cardinality(in_flight) <= max_concurrent
           /\ in_flight \subseteq current_batch
           /\ crawl_pc \in {"loop", "done"} => in_flight = {})
    /\ [][ (crawl_pc = "loop" /\ crawl_pc' = "batch") =>
              (in_flight = {} /\ current_batch = {}) ]_vars

\* The two units of the second batch are in flight together.
C15_Witness ==
    /\ crawl_pc = "batch"
    /\ max_concurrent = 2
    /\ Cardinality(visited_urls) = 4
    /\ Cardinality(in_flight) = 2

C18_ShortTextShortCircuit ==
    /\ [](\A t \in Tasks :
             (tpc[t] # "start" /\ text_len[t] < 100) =>
                 /\ tpc[t] = "done" /\ ret[t] = "empty"
                 /\ calls[t] = 0 /\ attempt[t] = 0 /\ sleeps[t] = <<>>)
    /\ [][\A t \in Tasks :
             (tpc[t] = "start" /\ tpc'[t] # "start" /\ text_len'[t] < 100) =>
                 /\ since_request' = since_request
                 /\ since_start' = since_start
                 /\ last_gap' = last_gap]_vars

C18_Witness ==
    \E t, u \in Tasks :
        /\ text_len[t] = 99 /\ tpc[t] = "done" /\ ret[t] = "empty"
        /\ calls[t] = 0
        /\ text_len[u] = 100 /\ calls[u] = 1 /\ since_request = 0

HasText(field) ==
    field.kind = "str" /\ \E k \in 1..Len(field.chars) : field.chars[k] # " "

WellFormed(pd) ==
    /\ HasText(pd.product_name)
    /\ pd.fields_ok
    /\ pd.treatments.kind = "list"
    /\ \E k \in 1..Len(pd.treatments.items) :
          /\ HasText(pd.treatments.items[k].name)
          /\ pd.treatments.items[k].fields_ok

\* C19: every product in the list being returned has a non-empty name and
\* at least one treatment, each with a non-empty name; handling a product
\* dict never raises, keeps the products collected before it, and adds the
\* product when the dict is well formed.
C19_ReturnedProductsAreValid ==
    /\ [](/\ prod_pc # "raised"
          /\ \A i \in 1..Len(parsed_products) :
                /\ parsed_products[i].product_name # <<>>
                /\ parsed_products[i].treatments # <<>>
                /\ \A k \in 1..Len(parsed_products[i].treatments) :
                      parsed_products[i].treatments[k].name # <<>>)
    /\ [][(prod_pc = "body" /\ prod_pc' # "body") =>
             /\ Len(parsed_products') >= Len(parsed_products)
             /\ SubSeq(parsed_products', 1, Len(parsed_products)) = parsed_products
             /\ WellFormed(current_data[1]) <=>
                   Len(parsed_products') = Len(parsed_products) + 1]_vars

C19_Witness ==
    /\ prod_pc = "body"
    /\ product_idx = 1
    /\ parsed_products = <<[product_name |-> <<"B">>,
                            treatments |-> <<[name |-> <<"L">>]>>]>>
    /\ current_data[1].product_name = Str(<<" ", "B">>)
    /\ current_data[1].treatments.kind = "list"
    /\ Len(current_data[1].treatments.items) = 2
    /\ \A k \in 1..2 : current_data[1].treatments.items[k].name = Str(<<" ">>)

\* C20: _parse_llm_response never raises; when the strict json.loads of the
\* extracted text fails it calls _try_fix_json once and parses the repaired
\* text at most once more, and when no valid repaired text results it
\* returns an empty list; the extract call is over when the parser has
\* returned, and a call that is over invokes the provider no more.
C20_MalformedResponseGivesEmptyList ==
    /\ [](parsed # <<>> =>
             LET r == parsed[1].result
             IN  /\ ~r.raised
                 /\ tpc[parsed[1].task] = "done"
                 /\ ret[parsed[1].task] = "parsed"
                 /\ json_loads(r.json_str).ok => r.fix_calls = 0
                 /\ (r.loads_calls >= 1 /\ ~json_loads(r.json_str).ok) =>
                       /\ r.fix_calls = 1
                       /\ r.loads_calls <= 2
                       /\ r.fixed = <<>> =>
                             r.product_dicts = 0 /\ r.loads_calls = 1)
    /\ [][/\ parsed' # parsed => calls' = calls
          /\ \A t \in Tasks :
                (tpc[t] = "done" /\ ret[t] = "parsed") =>
                    /\ tpc'[t] = "done" /\ ret'[t] = "parsed"
                    /\ calls'[t] = calls[t]]_vars

C20_Witness ==
    /\ parsed # <<>>
    /\ parsed[1].response = <<"{", "v", ",", "{", "v", "}">>
    /\ parsed[1].result.fix_calls = 1
    /\ parsed[1].result.loads_calls = 1
    /\ parsed[1].result.product_dicts = 0
    /\ calls[parsed[1].task] = 2
    /\ tpc[parsed[1].task] = "done"
    /\ ret[parsed[1].task] = "parsed"

\* A text cut off mid-generation: not one JSON value itself, it starts an
\* object and becomes one when some closing tokens are added.
CutOff(s) ==
    /\ s # <<>>
    /\ s[1] = "{"
    /\ ~json_loads(s).ok
    /\ \E tail \in SeqsUpTo({"}", "v"}, 3) : json_loads(s \o tail).ok

\* C21: when the text handed to the JSON repair pass does not end in a
\* closing brace and is a response cut off mid-generation, the repair pass
\* returns a parseable JSON text.
C21_CutOffResponseRecovered ==
    (/\ parsed # <<>>
     /\ parsed[1].result.fix_calls = 1
     /\ CutOff(parsed[1].result.json_str)
     /\ parsed[1].result.json_str[Len(parsed[1].result.json_str)] # "}")
        => parsed[1].result.fixed # <<>>

\* C22 as stated: once a requested sitemap path has answered HTTP 200, no
\* later path is requested.
C22_StopsAtFirst200 ==
    \A i \in 1..Len(sm_answers) : sm_answers[i].status = 200 => i = Len(sm_answers)

\* C22 amended: the paths are requested in the order of the list, without
\* gaps; no path is requested after one that answered HTTP 200 and whose body
\* was read, whatever number of URLs it yielded; a path whose request or body
\* read raised or that answered another status is followed by the next path,
\* and the call returns only after such a 200 answer or after the sixth path.
C22_ProbesInOrderUntilRead200 ==
    /\ Len(sm_requested) = Len(sm_answers)
    /\ Len(sm_requested) <= 6
    /\ \A i \in 1..Len(sm_requested) : sm_requested[i] = potential_sitemaps[i]
    /\ \A i \in 1..Len(sm_answers) : sm_answers[i] = BodyRead => i = Len(sm_answers)
    /\ sm_pc = "returned" =>
          /\ sm_answers # <<>>
          /\ sm_answers[Len(sm_answers)] = BodyRead \/ Len(sm_answers) = 6
    /\ (sm_answers # <<>> /\ sm_answers[Len(sm_answers)] # BodyRead) => sitemap_urls = {}

C22_Witness ==
    /\ sm_pc = "returned"
    /\ sm_answers = <<GetRaised, NotFound, BodyError, BodyRead>>
    /\ sm_requested = <<"/sitemap.xml", "/sitemap_index.xml", "/sitemaps.xml",
                        "/sitemap/sitemap.xml">>
    /\ sitemap_urls = {}

Excluded(settings, url) ==
    \E pattern \in settings.exclude_patterns \cup excluded_patterns :
        InUrl(pattern, UrlLower(url))

\* C23: no URL that matches an exclude pattern of the site config or a
\* built-in exclude pattern is among the URLs sitemap discovery returns.
C23_ExcludedNeverReturned ==
    \A url \in sitemap_urls : ~Excluded(sm_settings, url)

(***************************************************************************)
(* C24: at the start of every scrape_spa_content call on a                 *)
(* UnifiedSPAContentScraper the set of tried interaction signatures is     *)
(* empty, so that signatures recorded for one URL exclude no element of a  *)
(* later call.                                                             *)
(***************************************************************************)
C24_SignaturesEmptyAtCallStart ==
    [][(~reused /\ reused') => interacted_elements' = {}]_vars

(***************************************************************************)
(* C25: the content fingerprint of the SPA loops depends only on the first *)
(* 5000 characters of the document: two documents captured in one session  *)
(* whose first 5000 characters are equal get the same fingerprint.         *)
(***************************************************************************)
C25_FingerprintOfPrefixOnly ==
    scraper = "unified" =>
        \A i, j \in 1..Len(collected_htmls) :
            collected_htmls[i][1] = collected_htmls[j][1]
                => content_states[i] = content_states[j]

(***************************************************************************)
(* C26: the list scrape_all_treatments returns holds no two products with  *)
(* the same (clinic_name, product_name) pair, holds a product for every    *)
(* pair that occurs in a crawl result, and holds for each pair its first   *)
(* occurrence in crawl-result order.                                       *)
(***************************************************************************)
\* The places <<page, position>> where a pair occurs in the crawl results.
Occurrences(pair) ==
    {<<i, j>> \in (1..Len(page_results)) \X (1..MaxPerPage) :
        j <= Len(page_results[i].pairs) /\ page_results[i].pairs[j] = pair}

Earlier(a, b) == a[1] < b[1] \/ (a[1] = b[1] /\ a[2] < b[2])

C26_DedupKeepsFirstOfEachPair ==
    (merge_owner = "scrape_all_treatments" /\ merge_pc = "returned") =>
        /\ DistinctKeys(merge_ret)
        /\ \A pair \in PagePairs :
              Occurrences(pair) # {} => \E k \in 1..Len(merge_ret) : Key(merge_ret[k]) = pair
        /\ \A k \in 1..Len(merge_ret) :
              /\ merge_ret[k].origin \in Occurrences(Key(merge_ret[k]))
              /\ \A o \in Occurrences(Key(merge_ret[k])) : ~Earlier(o, merge_ret[k].origin)

C26_Witness ==
    /\ merge_owner = "scrape_all_treatments"
    /\ merge_pc = "returned"
    /\ page_results =
          << [status_code |-> 200, llm_processing_time |-> 1,
              pairs |-> << <<"ClinicA", "Botox">>, <<"ClinicB", "Botox">> >>],
             [status_code |-> 200, llm_processing_time |-> 1,
              pairs |-> << <<"ClinicB", "Botox">>, <<"ClinicA", "Botox">> >>] >>
    /\ Len(merge_ret) = 2
    /\ merge_ret[1].origin = <<1, 1>>
    /\ merge_ret[2].origin = <<1, 2>>

(***************************************************************************)
(* C27: the list scrape_by_config returns for the static-URL strategy and  *)
(* for the sitemap strategy holds no two products with the same            *)
(* (clinic_name, product_name) pair.                                       *)
(***************************************************************************)
C27_StrategiesReturnDistinctPairs ==
    (merge_owner \in {"static_urls", "sitemap"} /\ merge_pc = "returned") =>
        DistinctKeys(merge_ret)

(***************************************************************************)
(* C28: after a page of a batch was fetched and processed successfully,    *)
(* the URLs found in the pages of that batch that are not visited yet are  *)
(* in the frontier of crawl_and_extract.                                   *)
(***************************************************************************)
C28_FoundUrlsJoinFrontier ==
    (/\ crawl_pc \in {"loop", "done"}
     /\ \E u \in DOMAIN unit_results : unit_results[u].status_code = 200)
        => (page_links \ visited_urls) \subseteq urls_to_visit

(***************************************************************************)
(* C29: _parse_price_value returns null exactly for an absent or null      *)
(* field and for a string without a digit; it returns n for every number   *)
(* n, 0 included, and the number formed by its digits for every string     *)
(* that holds a digit.                                                     *)
(***************************************************************************)
HasDigit(chars) == \E i \in 1..Len(chars) : IsDigit(chars[i])

C29_PriceNullOnlyWhenNoNumber ==
    price_pc = "returned" =>
        /\ price_ret = <<>> <=>
              \/ price_value.kind = "none"
              \/ (price_value.kind = "str" /\ ~HasDigit(price_value.chars))
        /\ price_value.kind = "number" => price_ret = <<price_value.n>>
        /\ (price_value.kind = "str" /\ HasDigit(price_value.chars))
              => price_ret = <<DecimalValue(KeepDigits(price_value.chars), 1, 0)>>

CollectedUrls ==
    LET listed == Range(LocsOf(sitemap_doc.run)) \cup
                  UNION {Range(LocsOf(sitemap_doc.subs[i].run)) :
                            i \in {k \in 1..Len(sitemap_doc.subs) : sitemap_doc.subs[k].fetched}}
    IN  {url \in listed : url_relevant[order_settings, url.kind]}

Falling(urls) ==
    \A i \in 1..Len(urls) : i < Len(urls) =>
        url_priority[order_settings, urls[i].kind] >= url_priority[order_settings, urls[i + 1].kind]

KeepsHighest(urls) ==
    \A cut \in CollectedUrls \ Range(urls) : \A i \in 1..Len(urls) :
        url_priority[order_settings, urls[i].kind] >= url_priority[order_settings, cut.kind]

C32_CapsKeepHighestPriority ==
    /\ order_pc \in {"limit", "done"} =>
          /\ Len(resolved_urls) <= 100
          /\ Range(resolved_urls) \subseteq CollectedUrls
          /\ Falling(resolved_urls)
          /\ KeepsHighest(resolved_urls)
    /\ order_pc = "done" =>
          /\ Len(limited_urls) <= 50
          /\ Falling(limited_urls)
          /\ KeepsHighest(limited_urls)

\* Two referenced documents list 60 treatment pages and 60 product pages:
\* the 100 URLs returned are the product pages and 40 treatment pages.
C32_Witness ==
    /\ order_pc = "done"
    /\ order_settings = XeniaSettings
    /\ Len(sitemap_doc.subs) = 2
    /\ sitemap_doc.subs[1] = [fetched |-> TRUE, run |-> [kind |-> <<"clinic.com", "treatment">>, count |-> BigRun]]
    /\ sitemap_doc.subs[2] = [fetched |-> TRUE, run |-> [kind |-> <<"xenia.clinic", "ko", "products", "uuid">>, count |-> BigRun]]
    /\ Len(resolved_urls) = 100
    /\ resolved_urls[1].kind = <<"xenia.clinic", "ko", "products", "uuid">>
    /\ resolved_urls[100].kind = <<"clinic.com", "treatment">>
    /\ Len(limited_urls) = 50

(***************************************************************************)
(* C33: when every dispatched fetch-and-extract unit completes,            *)
(* crawl_and_extract returns in the end: an iteration of the loop moves at *)
(* least one URL from the frontier to the visited set, and the loop is     *)
(* left at its head when the frontier is empty, max_pages URLs are visited *)
(* or the time ceiling is exceeded.                                        *)
(***************************************************************************)
C33_CrawlReturns ==
    /\ <>(crawl_pc = "done")
    /\ [][(crawl_pc = "loop" /\ crawl_pc' = "batch") =>
            /\ visited_urls' \ visited_urls # {}
            /\ visited_urls' \ visited_urls = urls_to_visit \ urls_to_visit'
            /\ visited_urls \subseteq visited_urls']_vars
    /\ [][(crawl_pc = "loop" /\ (urls_to_visit = {} \/ Cardinality(visited_urls) >= max_pages \/ time_up'))
            => crawl_pc' = "done"]_vars

\* Returned after more than one iteration of the loop.
C33_Witness ==
    /\ crawl_pc = "done"
    /\ Cardinality(visited_urls) >= 2
    /\ max_concurrent = 1
    /\ Cardinality(crawl_results) >= 2

C35_NoUrlDispatchedTwice ==
    /\ [](crawl_pc = "loop" => urls_to_visit \cap visited_urls = {})
    /\ [][(crawl_pc = "loop" /\ crawl_pc' = "batch") =>
            current_batch' \cap visited_urls = {}]_vars
    /\ [][(urls_to_visit' \ urls_to_visit) \cap visited_urls' = {}]_vars

\* At the head of the loop after a first batch, with URLs left to visit.
C35_Witness ==
    /\ crawl_pc = "loop"
    /\ visited_urls = {1, 2}
    /\ urls_to_visit = {3}
    /\ DOMAIN unit_results = {1, 2}

(***************************************************************************)
(* C37: in crawl_and_extract the number of visited URLs is never above     *)
(* max_pages + min(max_concurrent, 5) - 1: a batch is started only while   *)
(* fewer than max_pages URLs are visited, and a batch holds at most        *)
(* min(max_concurrent, 5) URLs.                                            *)
(***************************************************************************)
C37_VisitedOvershootBounded ==
    /\ [](Cardinality(visited_urls) <= max_pages + Min(max_concurrent, 5) - 1)
    /\ [][(crawl_pc = "loop" /\ crawl_pc' = "batch") =>
            /\ Cardinality(visited_urls) < max_pages
            /\ Cardinality(current_batch') <= Min(max_concurrent, 5)
            /\ visited_urls' = visited_urls \cup current_batch']_vars

\* The bound is reached: two batches of two URLs with max_pages = 3.
C37_Witness ==
    /\ max_pages = 3
    /\ max_concurrent = 2
    /\ Cardinality(visited_urls) = 4
    /\ crawl_pc = "batch"

(***************************************************************************)
(* C36: the product list of scrape_spa_content is determined by what the   *)
(* extraction tasks returned, whatever the order they ended in: the        *)
(* results are folded in interaction order, so the list is in interaction  *)
(* order, a record that is kept comes from the earliest snapshot in which  *)
(* its product was found, and every product name found is in the list.     *)
(***************************************************************************)
C36_FoldedInInteractionOrder ==
    gather_pc = "folded" =>
        /\ \A a, b \in 1..Len(folded_products) :
              a < b => folded_products[a].found_in <= folded_products[b].found_in
        /\ \A a \in 1..Len(folded_products) : \A k \in 1..Len(task_results) :
              (\E j \in 1..Len(task_results[k]) : Key(task_results[k][j]) = Key(folded_products[a]))
                  => folded_products[a].found_in <= k
        /\ \A k \in 1..Len(task_results) : \A j \in 1..Len(task_results[k]) :
              \E a \in 1..Len(folded_products) :
                  folded_products[a].product_name = task_results[k][j].product_name

\* The task of the second snapshot ended before the task of the first one,
\* both found the same product, and the record of the first one is kept.
C36_Witness ==
    /\ gather_pc = "folded"
    /\ completion_order = <<2, 1>>
    /\ Len(task_results[1]) = 2 /\ Len(task_results[2]) = 2
    /\ Key(task_results[1][1]) = <<"ClinicA", "Botox">>
    /\ Key(task_results[2][1]) = <<"ClinicA", "Botox">>
    /\ \E a \in 1..Len(folded_products) :
          /\ Key(folded_products[a]) = <<"ClinicA", "Botox">>
          /\ folded_products[a].found_in = 1
    /\ \A a \in 1..Len(folded_products) : folded_products[a].found_in = 1

====
